---- MODULE Spec2Model ----
(***************************************************************************)
(* Model of the AXIOM scraper pipeline (scripts/scraper/AXIOM.py):         *)
(* RainmeterCompleteScraper.run_complete_scrape with its three phases,     *)
(* the ThreadPoolExecutor that runs process_skin_download, the progress    *)
(* file, and DownloadExtractor.extract_archive over a small file system.   *)
(***************************************************************************)
EXTENDS Integers, Sequences, FiniteSets, TLC

VARIABLES
    progress_file,      \* scraping_progress.json: the saved 'scraped_skins' list
    all_skins,          \* self.all_skins: Set[SkinMetadata], in insertion order
    all_scraped_skins,  \* run_complete_scrape's local list
    pc,                 \* position of the main thread
    idx,                \* index of the category being scraped (1-based)
    current_url,        \* scrape_category_complete: current listing page
    page_num,           \* scrape_category_complete: page counter
    skin_i,             \* position in the page's skin_urls
    category_skins,     \* scrape_category_complete's local result list
    work_queue,         \* executor work queue (urls of submitted skins, FIFO)
    task,               \* per url: stage of its process_skin_download call
    completed_skins,    \* download_all_skins_parallel's local list (its urls)
    skins_arg,          \* the 'skins' argument as it was on entry
    interrupted,        \* a KeyboardInterrupt has been raised in the main thread
    fetched,            \* urls for which download_file issued a GET (log line 607)
    extract_started,    \* urls for which extract_archive was entered
    run,                \* number of the current run of the program
    archive,            \* extract_archive: the archive file at archive_path
    disk,               \* files on disk: set of [path, content]
    dirs,               \* directories on disk
    disk_before,        \* disk as it was when extract_archive was called
    dirs_before,        \* dirs as they were when extract_archive was called
    x_pc,               \* position inside extract_archive
    member_i,           \* extractall: index of the next member
    x_result,           \* extract_archive's return value (success, extract_path)
    site,               \* the listing pages the server has
    page_requests,      \* get_page_content calls of the category being scraped
    since_request,      \* time slept since the last request was sent (half seconds)
    limiter,            \* AdaptiveRateLimiter: delay, success_count, failure_count
    dl,                 \* download_file: the call in progress and its locals
    db,                 \* the 'skins' table of the sqlite database, by url
    db_result,          \* the latest call on the database and what it returned
    filename,           \* sanitize_filename: the argument and the names returned
    stats,              \* self.stats: the counters of process_skin_download
    loaded,             \* per url: the counter value its thread has read for '+= 1'
    paths               \* the paths download_file and extract_archive build

vars == << progress_file, all_skins, all_scraped_skins, pc, idx, current_url,
           page_num, skin_i, category_skins, work_queue, task, completed_skins,
           skins_arg, interrupted, fetched, extract_started, run,
           archive, disk, dirs, disk_before, dirs_before, x_pc, member_i,
           x_result, site, page_requests, since_request, limiter, dl,
           db, db_result, filename, stats, loaded, paths >>

\* the variables of one extract_archive call
xvars == << archive, disk, dirs, disk_before, dirs_before, x_pc, member_i,
            x_result >>

\* the database and the filename sanitizer, followed on their own
uvars == << db, db_result, filename, stats, loaded, paths >>

\* the rate limiter and the download_file call followed on their own
lvars == << limiter, dl, uvars >>

----------------------------------------------------------------------------
(* Bounds and program constants *)

MaxRuns == 2

\* --workers (the constructor's max_workers argument, 3 by default)
max_workers == 2

MaxEntries == 2

max_pages == 50

save_every == 10

\* --delay (the constructor's delay argument, 1.0 second), in half seconds
delay == 2

----------------------------------------------------------------------------
(* The site being scraped: the configuration and the pages the server has. *)

Categories ==
    << [name |-> "Clocks", url |-> "A1"],
       [name |-> "NoUrl",  url |-> ""],
       [name |-> "Suites", url |-> "B1"] >>

SkinUrls == {"s1", "s2", "s3", "s4", "s5", "s6", "s7", "s8", "s9", "s10", "s11",
             "s12"}

PageUrls == {"A1", "A2", "A3", "B1"}

NoLinks == [skins |-> << >>, next |-> ""]

\* two pages that share a skin, and a page whose next link is the page itself
DefaultSite ==
    [u \in PageUrls |->
        CASE u = "A1" -> [skins |-> << "s1", "s2" >>, next |-> "A2"]
          [] u = "A2" -> [skins |-> << "s2", "s3" >>, next |-> ""]
          [] u = "B1" -> [skins |-> << "s3" >>, next |-> "B1"]
          [] OTHER    -> NoLinks]

\* next links that form a cycle of two pages
CycleSite ==
    [u \in PageUrls |->
        CASE u = "A1" -> [skins |-> << "s1", "s2" >>, next |-> "A2"]
          [] u = "A2" -> [skins |-> << >>, next |-> "A3"]
          [] u = "A3" -> [skins |-> << >>, next |-> "A2"]
          [] u = "B1" -> [skins |-> << "s3" >>, next |-> ""]
          [] OTHER    -> NoLinks]

\* three skins on page 1 and two new ones on page 2
TwoPageSite ==
    [u \in PageUrls |->
        CASE u = "A1" -> [skins |-> << "s5", "s6", "s7" >>, next |-> "A2"]
          [] u = "A2" -> [skins |-> << "s8", "s9" >>, next |-> ""]
          [] u = "B1" -> [skins |-> << "s3" >>, next |-> "B1"]
          [] OTHER    -> NoLinks]

Sites == {DefaultSite, CycleSite, TwoPageSite}

\* find_skin_page_urls and find_next_page_url applied to a listing page
ListingPage(u) == IF u \in DOMAIN site THEN site[u] ELSE NoLinks

\* extract_download_url applied to a skin page ("" when no link validates)
DownloadLinkOf(u) == IF u = "s3" THEN "" ELSE "dl_" \o u

TitleOf(u) == "title_" \o u

----------------------------------------------------------------------------
(* SkinMetadata and the set keyed by url *)

Statuses == {"pending", "downloaded", "extracted", "download_failed",
             "extraction_failed", "no_download_url", "error"}

\* mutant of SkinMetadata: page_num is not passed on, the default 1 is used
SkinMetadata_default_page(u, category_name, page) ==
    [url |-> u, title |-> TitleOf(u), category |-> category_name,
     page_number |-> 1, download_url |-> DownloadLinkOf(u),
     download_status |-> "pending", local_path |-> << >>,
     extracted_path |-> << >>, file_hash |-> << >>]

\* SkinMetadata(...) as built by extract_skin_metadata
SkinMetadata(u, category_name, page) ==
    [url |-> u, title |-> TitleOf(u), category |-> category_name,
     page_number |-> page, download_url |-> DownloadLinkOf(u),
     download_status |-> "pending", local_path |-> << >>,
     extracted_path |-> << >>, file_hash |-> << >>]

\* asdict(skin) as written by save_progress
asdict(skin) ==
    [url |-> skin.url, title |-> skin.title, category |-> skin.category,
     page_number |-> skin.page_number, download_url |-> skin.download_url,
     download_status |-> skin.download_status, local_path |-> skin.local_path,
     extracted_path |-> skin.extracted_path, file_hash |-> skin.file_hash]

\* SkinMetadata(**skin_data) as read by load_progress
FromDict(d) ==
    [url |-> d.url, title |-> d.title, category |-> d.category,
     page_number |-> d.page_number, download_url |-> d.download_url,
     download_status |-> d.download_status, local_path |-> d.local_path,
     extracted_path |-> d.extracted_path, file_hash |-> d.file_hash]

\* any(skin.url == u for skin in skins)
HasUrl(skins, u) == \E i \in 1..Len(skins) : skins[i].url = u

\* the mutant of set_add: a list append, with no __eq__/__hash__ on url
set_add_append(skins, skin) == Append(skins, skin)

\* set.add under SkinMetadata.__hash__/__eq__: an equal element is kept
set_add(skins, skin) ==
    IF HasUrl(skins, skin.url) THEN skins ELSE Append(skins, skin)

RECURSIVE set_update(_, _)
\* set.update(iterable): add every element in turn
set_update(skins, items) ==
    IF items = << >> THEN skins
    ELSE set_update(set_add(skins, Head(items)), Tail(items))

IndexOf(skins, u) == CHOOSE i \in 1..Len(skins) : skins[i].url = u

SkinOf(skins, u) == skins[IndexOf(skins, u)]

StatusOf(skins, u) == SkinOf(skins, u).download_status

\* assignment to attributes of the (shared) SkinMetadata object with url u
SetFields(skins, u, upd) ==
    [i \in 1..Len(skins) |->
        IF skins[i].url = u
        THEN [f \in DOMAIN skins[i] |->
                 IF f \in DOMAIN upd THEN upd[f] ELSE skins[i][f]]
        ELSE skins[i]]

\* save_progress: the 'scraped_skins' list written to the progress file
SavedSkins(skins) == [i \in 1..Len(skins) |-> asdict(skins[i])]

\* load_progress: all_skins after reading the progress file
LoadedSkins(file) == set_update(<< >>, [i \in 1..Len(file) |-> FromDict(file[i])])

----------------------------------------------------------------------------
(* Progress files a previous run may have left behind *)

\* a record of an earlier run, with the fields its status implies
PriorSkin(u, category_name, page, status) ==
    [url |-> u, title |-> TitleOf(u), category |-> category_name,
     page_number |-> page, download_url |-> "dl_" \o u,
     download_status |-> status,
     local_path |-> IF status \in {"downloaded", "extracted", "extraction_failed"}
                    THEN << "downloads", category_name, TitleOf(u) >> ELSE << >>,
     extracted_path |-> IF status = "extracted"
                        THEN << "extracted_skins", category_name, TitleOf(u) >>
                        ELSE << >>,
     file_hash |-> IF status \in {"downloaded", "extracted", "extraction_failed"}
                   THEN << "sha256", "dl_" \o u >> ELSE << >>]

PriorEntry(u, category_name, page, status) ==
    IF status = "absent" THEN << >>
    ELSE << PriorSkin(u, category_name, page, status) >>

PriorProgressFiles ==
    { PriorEntry("s1", "Clocks", 1, c1) \o PriorEntry("s4", "Suites", 1, c4) :
        c1 \in {"absent", "downloaded", "extracted"},
        c4 \in {"absent", "pending"} }

----------------------------------------------------------------------------
(* AdaptiveRateLimiter (delays in milliseconds) *)

min_delay == 500

max_delay == 10000

InitialDelays == {1000, 2000}

success_threshold == 10

error_threshold == 3

MaxFailures == 5

Min(a, b) == IF a <= b THEN a ELSE b

Max(a, b) == IF a >= b THEN a ELSE b

\* mutant of SpeedUp: the floor is left out
SpeedUp_unfloored(d) == (d * 95) \div 100

\* delay * 0.95, not below min_delay
SpeedUp(d) == Max(min_delay, (d * 95) \div 100)

\* mutant of Backoff: the cap is left out
Backoff_uncapped(d) == d * 2

\* mutant of Backoff: the factor of on_error is used
Backoff_error_factor(d) == Min(max_delay, (d * 3) \div 2)

\* delay * 2.0, not above max_delay
Backoff(d) == Min(max_delay, d * 2)

\* delay * 1.5, not above max_delay
ErrorBackoff(d) == Min(max_delay, (d * 3) \div 2)

\* no rate limiter is being followed
NoLimiter == [delay |-> 1000, success_count |-> 0, failure_count |-> 0]

\* no download_file call is being followed
NoDownload ==
    [pc |-> "idle", url |-> "", responses |-> << >>, attempts |-> 0,
     body |-> << >>, breaks_at |-> 0, chunk_i |-> 1, file |-> << >>,
     hashed |-> << >>,
     result |-> [success |-> FALSE, local_path |-> << >>, file_hash |-> << >>]]

\* no call on the database has been made
NoResult ==
    [op |-> "none", url |-> "", status |-> "", fields |-> << >>, limit |-> 0,
     category |-> "", ok |-> FALSE, rows |-> << >>, count |-> 0]

\* no sanitize_filename call is being followed
NoFilename == [input |-> << >>, out |-> << >>]

\* the keys of self.stats that process_skin_download increments
StatKeys == {"skins_downloaded", "skins_extracted", "download_failures",
             "extraction_failures", "errors"}

\* self.stats as set up by __init__
ZeroStats == [k \in StatKeys |-> 0]

\* no thread is between the read and the write of a counter
NoneLoaded == [u \in SkinUrls |-> -1]

\* no path is being built
NoPaths == [items |-> << >>, local_path |-> << >>, extract_dir |-> << >>]

\* the counters and the paths are not being followed
CountersIdle ==
    /\ stats = ZeroStats
    /\ loaded = NoneLoaded
    /\ paths = NoPaths

\* the database and the sanitizer are not being followed
UtilitiesIdle ==
    /\ db = {}
    /\ db_result = NoResult
    /\ filename = NoFilename
    /\ CountersIdle

\* the variables the rate limiter leaves alone
not_limiter_vars == << progress_file, all_skins, all_scraped_skins, pc, idx,
                       current_url, page_num, skin_i, category_skins, work_queue,
                       task, completed_skins, skins_arg, interrupted, fetched,
                       extract_started, run, site, page_requests, since_request,
                       xvars, dl, uvars >>

on_success ==
    /\ limiter' =
          IF limiter.success_count + 1 >= success_threshold
          THEN [delay |-> SpeedUp(limiter.delay), success_count |-> 0,
                failure_count |-> 0]
          ELSE [limiter EXCEPT !.success_count = @ + 1, !.failure_count = 0]
    /\ UNCHANGED not_limiter_vars

on_rate_limited ==
    /\ limiter.failure_count < MaxFailures
    /\ limiter' = [delay |-> Backoff(limiter.delay), success_count |-> 0,
                   failure_count |-> limiter.failure_count + 1]
    /\ UNCHANGED not_limiter_vars

on_error ==
    /\ limiter.failure_count < MaxFailures
    /\ limiter' =
          [delay |-> IF limiter.failure_count + 1 > error_threshold
                     THEN ErrorBackoff(limiter.delay) ELSE limiter.delay,
           success_count |-> 0,
           failure_count |-> limiter.failure_count + 1]
    /\ UNCHANGED not_limiter_vars

----------------------------------------------------------------------------
(* DownloadExtractor.extract_archive on one archive, over a small file system *)

\* extract_dir / sanitize(category) / sanitize(skin_name)
skin_dir == << "extracted_skins", "Clocks", "title_s1" >>

IsPrefix(p, q) == Len(p) <= Len(q) /\ SubSeq(q, 1, Len(p)) = p

NotPathPart(x) == x \notin {"", ".", ".."}

\* zipfile's _extract_member: empty, '.' and '..' components are dropped
\* from the member name (an absolute name starts with an empty component)
ZipMemberPath(name) == SelectSeq(name, NotPathPart)

RECURSIVE Normalize(_, _)
\* the path that joining base and name resolves to ('..' goes up one level)
Normalize(base, name) ==
    IF name = << >> THEN base
    ELSE IF Head(name) = ".."
         THEN Normalize(IF base = << >> THEN << >> ELSE SubSeq(base, 1, Len(base) - 1),
                        Tail(name))
         ELSE IF Head(name) \in {"", "."}
              THEN Normalize(base, Tail(name))
              ELSE Normalize(Append(base, Head(name)), Tail(name))

\* the absolute path a member name designates when joined to skin_dir
Resolved(name) ==
    IF name # << >> /\ Head(name) = ""
    THEN Normalize(<< >>, name)
    ELSE Normalize(skin_dir, name)

\* member names: plain, nested, '..' traversal, absolute
MemberNames ==
    { << "a.txt" >>, << "dir", "b.txt" >>, << "..", "..", "etc", "passwd" >>,
      << "", "etc", "passwd" >> }

\* declared uncompressed sizes, in units of 250 MB
MemberSizes == {1, 5}

Members == [name : MemberNames, size : MemberSizes, bad : BOOLEAN]

RECURSIVE SeqsUpTo(_, _)
SeqsUpTo(S, n) ==
    IF n = 0 THEN {<< >>}
    ELSE SeqsUpTo(S, n - 1) \cup
         {Append(q, x) : q \in {r \in SeqsUpTo(S, n - 1) : Len(r) = n - 1}, x \in S}

\* bad members only at the end of the list: extractall stops at the first one
Archives ==
    { a \in [ext : {"zip", "rmskin", "rar", "7z", "txt"},
             exists : BOOLEAN,
             readable : BOOLEAN,
             members : SeqsUpTo(Members, MaxEntries)] :
        /\ \A i \in 1..Len(a.members) : a.members[i].bad => i = Len(a.members)
        /\ a.ext \in {"rmskin", "rar", "7z", "txt"} =>
              (a.exists /\ a.readable /\ \A i \in 1..Len(a.members) :
                                            ~a.members[i].bad /\ a.members[i].size = 1) }

\* what the destination holds before the call
OldFiles ==
    { {}, {[path |-> skin_dir \o << "old.txt" >>, content |-> "old"]},
      {[path |-> skin_dir \o << "a.txt" >>, content |-> "old"]} }

NoArchive == [ext |-> "txt", exists |-> FALSE, readable |-> FALSE, members |-> << >>]

\* no extract_archive call is being followed
NoExtractCall ==
    /\ archive = NoArchive
    /\ disk = {}
    /\ dirs = {}
    /\ disk_before = {}
    /\ dirs_before = {}
    /\ x_pc = "idle"
    /\ member_i = 1
    /\ x_result = [success |-> FALSE, extract_path |-> << >>]

\* the variables an extract_archive call leaves alone
pipeline_vars == << progress_file, all_skins, all_scraped_skins, pc, idx,
                    current_url, page_num, skin_i, category_skins, work_queue,
                    task, completed_skins, skins_arg, interrupted, fetched,
                    extract_started, run, site, page_requests, since_request,
                    lvars >>

\* write one member's bytes to target, replacing a file of that name
WriteFile(files, target) ==
    {f \in files : f.path # target} \cup {[path |-> target, content |-> "new"]}

\* extract_archive up to the extractall call of extract_zip/_rar/_7z
ExtractArchiveCall ==
    /\ x_pc = "call"
    /\ IF ~archive.exists
       THEN /\ x_result' = [success |-> FALSE, extract_path |-> << >>]
            /\ x_pc' = "returned"
            /\ UNCHANGED dirs
       ELSE /\ dirs' = dirs \cup {skin_dir}
            /\ IF archive.ext \in {"zip", "rmskin", "rar", "7z"} /\ archive.readable
               THEN /\ x_pc' = "extractall"
                    /\ UNCHANGED x_result
               ELSE /\ x_result' = [success |-> FALSE, extract_path |-> << >>]
                    /\ x_pc' = "returned"
    /\ UNCHANGED << archive, disk, disk_before, dirs_before, member_i >>
    /\ UNCHANGED pipeline_vars

\* extractall: one member is written below extract_dir, or the codec raises
ExtractMember ==
    /\ x_pc = "extractall"
    /\ member_i <= Len(archive.members)
    /\ LET m == archive.members[member_i] IN
         \E rejects \in BOOLEAN :
            IF m.bad \/ (rejects /\ archive.ext \in {"rar", "7z"}
                                 /\ ~IsPrefix(skin_dir, Resolved(m.name)))
            THEN /\ x_result' = [success |-> FALSE, extract_path |-> << >>]
                 /\ x_pc' = "returned"
                 /\ UNCHANGED << disk, member_i >>
            ELSE /\ disk' = WriteFile(disk, skin_dir \o ZipMemberPath(m.name))
                 /\ member_i' = member_i + 1
                 /\ UNCHANGED << x_result, x_pc >>
    /\ UNCHANGED << archive, dirs, disk_before, dirs_before >>
    /\ UNCHANGED pipeline_vars

\* extractall returned: return True, str(extract_dir)
ExtractReturn ==
    /\ x_pc = "extractall"
    /\ member_i > Len(archive.members)
    /\ x_result' = [success |-> TRUE, extract_path |-> skin_dir]
    /\ x_pc' = "returned"
    /\ UNCHANGED << archive, disk, dirs, disk_before, dirs_before, member_i >>
    /\ UNCHANGED pipeline_vars

\* the pipeline is not running
PipelineIdle ==
    /\ progress_file = << >>
    /\ all_skins = << >>
    /\ all_scraped_skins = << >>
    /\ pc = "done"
    /\ idx = 1
    /\ current_url = ""
    /\ page_num = 1
    /\ skin_i = 1
    /\ category_skins = << >>
    /\ work_queue = << >>
    /\ task = [u \in SkinUrls |-> "none"]
    /\ completed_skins = {}
    /\ skins_arg = << >>
    /\ interrupted = FALSE
    /\ fetched = {}
    /\ extract_started = {}
    /\ run = MaxRuns
    /\ site = DefaultSite
    /\ page_requests = {}
    /\ since_request = delay

ExtractInit ==
    /\ archive \in Archives
    /\ disk \in OldFiles
    /\ dirs \in IF disk = {} THEN {{}, {skin_dir}} ELSE {{skin_dir}}
    /\ disk_before = disk
    /\ dirs_before = dirs
    /\ x_pc = "call"
    /\ member_i = 1
    /\ x_result = [success |-> FALSE, extract_path |-> << >>]
    /\ PipelineIdle
    /\ limiter = NoLimiter
    /\ dl = NoDownload
    /\ UtilitiesIdle

ExtractNext == ExtractArchiveCall \/ ExtractMember \/ ExtractReturn

ExtractSpec == ExtractInit /\ [][ExtractNext]_vars

LimiterInit ==
    /\ \E d \in InitialDelays :
          limiter = [delay |-> d, success_count |-> 0, failure_count |-> 0]
    /\ dl = NoDownload
    /\ NoExtractCall
    /\ PipelineIdle
    /\ UtilitiesIdle

LimiterNext == on_success \/ on_rate_limited \/ on_error

LimiterSpec == LimiterInit /\ [][LimiterNext]_vars

----------------------------------------------------------------------------
(* The 'skins' table of the sqlite database: the calls of SkinDatabase and   *)
(* AXIOMUtilities.reset (axiom_utilities.py) on it                           *)

\* the urls of the calls; no skin with url u3 is ever saved
DbUrls == {"u1", "u2", "u3"}

\* the order in which a query returns the rows
KeyOrder == << "u1", "u2", "u3" >>

DbStatuses == {"pending", "downloaded", "extracted", "download_failed"}

DbCategories == {"Clocks", "Suites"}

MaxLimit == 3

\* the columns of a new skin (download_status 'pending', no paths, no hash)
NewRow(u, download_url) ==
    [url |-> u, category |-> IF u = "u1" THEN "Clocks" ELSE "Suites",
     download_url |-> download_url, download_status |-> "pending",
     local_path |-> "", extracted_path |-> "", file_hash |-> ""]

NewSkins == {NewRow(u, d) : u \in {"u1", "u2"}, d \in {"", "dl"}}

\* a row at one of the stages of the pipeline
StoredRow(u, download_url, status) ==
    [NewRow(u, download_url) EXCEPT
        !.download_status = status,
        !.local_path = IF status \in {"downloaded", "extracted"}
                       THEN "old_local_path" ELSE "",
        !.file_hash = IF status \in {"downloaded", "extracted"}
                      THEN "old_file_hash" ELSE "",
        !.extracted_path = IF status = "extracted" THEN "old_extracted_path" ELSE ""]

\* no row for u, or one row for u
RowsOf(u) ==
    {{}} \cup {{StoredRow(u, d, st)} : d \in {"", "dl"}, st \in DbStatuses}

\* the tables the calls are made on
Tables == {r1 \cup r2 : r1 \in RowsOf("u1"), r2 \in RowsOf("u2")}

HasRow(rows, u) == \E r \in rows : r.url = u

RowOf(rows, u) == CHOOSE r \in rows : r.url = u

\* insert-or-replace by url
Upsert(rows, skin) == {r \in rows : r.url # skin.url} \cup {skin}

FieldNames == {"local_path", "extracted_path", "file_hash"}

\* the keyword arguments of update_download_status: any subset of the fields
FieldUpdates == { [f \in S |-> "new_" \o f] : S \in SUBSET FieldNames }

\* mutant of UpdateRow: a field that was not passed is cleared
UpdateRow_all_fields(r, status, fields) ==
    [f \in DOMAIN r |->
        IF f = "download_status" THEN status
        ELSE IF f \in DOMAIN fields THEN fields[f]
        ELSE IF f \in FieldNames THEN ""
        ELSE r[f]]

\* UPDATE skins SET download_status = ?, <fields passed> WHERE url = ?
UpdateRow(r, status, fields) ==
    [f \in DOMAIN r |->
        IF f = "download_status" THEN status
        ELSE IF f \in DOMAIN fields THEN fields[f]
        ELSE r[f]]

\* mutant of Eligible: the download url is not tested
Eligible_any_url(r) == r.download_status = "pending"

\* WHERE download_status = 'pending' AND download_url != ''
Eligible(r) == r.download_status = "pending" /\ r.download_url # ""

RECURSIVE TakeEligible(_, _, _)
\* the rows of the query, at most limit of them
TakeEligible(rows, keys, limit) ==
    IF keys = << >> \/ limit = 0 THEN << >>
    ELSE IF HasRow(rows, Head(keys)) /\ Eligible(RowOf(rows, Head(keys)))
    THEN << RowOf(rows, Head(keys)) >> \o TakeEligible(rows, Tail(keys), limit - 1)
    ELSE TakeEligible(rows, Tail(keys), limit)

\* mutant of ResetRow: the paths and the hash are kept
ResetRow_status_only(r) == [r EXCEPT !.download_status = "pending"]

\* SET download_status = 'pending', local_path = '', extracted_path = '',
\* file_hash = ''
ResetRow(r) ==
    [r EXCEPT !.download_status = "pending", !.local_path = "",
              !.extracted_path = "", !.file_hash = ""]

\* the WHERE clause of the UPDATE that reset executes ("" stands for None)
ResetMatches(r, category, status) ==
    IF category # "" THEN r.category = category
    ELSE r.download_status = status

\* the variables a call on the database leaves alone
not_db_vars == << progress_file, all_skins, all_scraped_skins, pc, idx,
                  current_url, page_num, skin_i, category_skins, work_queue,
                  task, completed_skins, skins_arg, interrupted, fetched,
                  extract_started, run, site, page_requests, since_request,
                  xvars, limiter, dl, filename, stats, loaded, paths >>

\* SkinDatabase.save_skin(skin)
save_skin ==
    /\ db_result = NoResult
    /\ \E skin \in NewSkins :
          /\ db' = Upsert(db, skin)
          /\ db_result' = [NoResult EXCEPT !.op = "save_skin", !.url = skin.url,
                                           !.ok = TRUE]
    /\ UNCHANGED not_db_vars

\* SkinDatabase.update_download_status(url, status, **fields)
update_download_status(url, status, fields) ==
    /\ db_result = NoResult
    /\ db' = {IF r.url = url THEN UpdateRow(r, status, fields) ELSE r : r \in db}
    /\ db_result' = [NoResult EXCEPT !.op = "update_download_status", !.url = url,
                                     !.status = status, !.fields = fields,
                                     !.ok = HasRow(db, url)]
    /\ UNCHANGED not_db_vars

\* SkinDatabase.get_pending_downloads(limit)
get_pending_downloads(limit) ==
    /\ db_result = NoResult
    /\ db_result' = [NoResult EXCEPT !.op = "get_pending_downloads",
                                     !.limit = limit, !.ok = TRUE,
                                     !.rows = TakeEligible(db, KeyOrder, limit)]
    /\ UNCHANGED db
    /\ UNCHANGED not_db_vars

\* AXIOMUtilities.reset(category, status)
reset(category, status) ==
    /\ db_result = NoResult
    /\ IF category = "" /\ status = ""
       THEN /\ db_result' = [NoResult EXCEPT !.op = "reset"]
            /\ UNCHANGED db
       ELSE /\ db' = {IF ResetMatches(r, category, status) THEN ResetRow(r) ELSE r :
                         r \in db}
            /\ db_result' =
                  [NoResult EXCEPT
                     !.op = "reset", !.category = category, !.status = status,
                     !.ok = TRUE,
                     !.count = Cardinality({r \in db : ResetMatches(r, category, status)})]
    /\ UNCHANGED not_db_vars

\* one call on each of the tables
LedgerInit ==
    /\ db \in Tables
    /\ db_result = NoResult
    /\ filename = NoFilename
    /\ CountersIdle
    /\ limiter = NoLimiter
    /\ dl = NoDownload
    /\ NoExtractCall
    /\ PipelineIdle

LedgerNext ==
    \/ save_skin
    \/ \E url \in DbUrls, status \in DbStatuses, fields \in FieldUpdates :
          update_download_status(url, status, fields)
    \/ \E limit \in 0..MaxLimit : get_pending_downloads(limit)
    \/ \E category \in {""} \cup DbCategories, status \in {""} \cup DbStatuses :
          reset(category, status)

LedgerSpec == LedgerInit /\ [][LedgerNext]_vars

----------------------------------------------------------------------------
(* DownloadExtractor.sanitize_filename; a name is a sequence of characters *)

invalid_chars == {"<", ">", ":", "\"", "/", "\\", "|", "?", "*"}

\* filename[:100]
filename_limit == 100

MaxSuffix == 2

\* the characters of the names: the invalid ones, the ones strip removes,
\* the replacement and a letter
Alphabet == invalid_chars \cup {".", " ", "_", "a"}

Letters(n) == [i \in 1..n |-> "a"]

\* short names, and names around the length limit: at most one character,
\* then letters, then a short tail of dots, spaces, slashes and letters
Names ==
    { p \o Letters(n) \o q :
        p \in SeqsUpTo(Alphabet, 1),
        n \in {0, 1} \cup ((filename_limit - 2)..(filename_limit + 1)),
        q \in SeqsUpTo({".", " ", "/", "a"}, MaxSuffix) }

\* filename.replace(char, '_') for each of the invalid characters
ReplaceInvalid(name) ==
    [i \in 1..Len(name) |-> IF name[i] \in invalid_chars THEN "_" ELSE name[i]]

\* filename[:100]
Truncate(name) == SubSeq(name, 1, Min(Len(name), filename_limit))

RECURSIVE lstrip(_)
lstrip(name) ==
    IF name # << >> /\ Head(name) \in {".", " "} THEN lstrip(Tail(name)) ELSE name

RECURSIVE rstrip(_)
rstrip(name) ==
    IF name # << >> /\ name[Len(name)] \in {".", " "}
    THEN rstrip(SubSeq(name, 1, Len(name) - 1)) ELSE name

\* filename.strip('. ')
strip(name) == rstrip(lstrip(name))

unnamed == << "u", "n", "n", "a", "m", "e", "d" >>

\* mutant of sanitize_filename: the name is stripped before it is cut
sanitize_filename_strip_first(name) ==
    LET cut == Truncate(strip(ReplaceInvalid(name)))
    IN IF cut # << >> THEN cut ELSE unnamed

\* sanitize_filename(filename)
sanitize_filename(name) ==
    LET stripped == strip(Truncate(ReplaceInvalid(name)))
    IN IF stripped # << >> THEN stripped ELSE unnamed

\* sanitize_filename is called on the name, and then on the name it returned
SanitizeCall ==
    /\ Len(filename.out) < 2
    /\ filename' =
          [filename EXCEPT
             !.out = Append(@, sanitize_filename(IF @ = << >> THEN filename.input
                                                 ELSE @[Len(@)]))]
    /\ UNCHANGED << progress_file, all_skins, all_scraped_skins, pc, idx,
                    current_url, page_num, skin_i, category_skins, work_queue,
                    task, completed_skins, skins_arg, interrupted, fetched,
                    extract_started, run, site, page_requests, since_request,
                    xvars, limiter, dl, db, db_result, stats, loaded, paths >>

SanitizeInit ==
    /\ filename \in [input : Names, out : {<< >>}]
    /\ db = {}
    /\ db_result = NoResult
    /\ CountersIdle
    /\ limiter = NoLimiter
    /\ dl = NoDownload
    /\ NoExtractCall
    /\ PipelineIdle

SanitizeNext == SanitizeCall

SanitizeSpec == SanitizeInit /\ [][SanitizeNext]_vars

----------------------------------------------------------------------------
(* Initial state: the scraper object after __init__, which calls load_progress *)

PipelineStart ==
    /\ progress_file \in PriorProgressFiles
    /\ all_skins = LoadedSkins(progress_file)
    /\ all_scraped_skins = << >>
    /\ pc = "phase1"
    /\ idx = 1
    /\ current_url = ""
    /\ page_num = 1
    /\ skin_i = 1
    /\ category_skins = << >>
    /\ work_queue = << >>
    /\ task = [u \in SkinUrls |-> "none"]
    /\ completed_skins = {}
    /\ skins_arg = << >>
    /\ interrupted = FALSE
    /\ fetched = {}
    /\ extract_started = {}
    /\ run = 1
    /\ page_requests = {}
    /\ since_request = delay
    /\ NoExtractCall
    /\ limiter = NoLimiter
    /\ dl = NoDownload
    /\ UtilitiesIdle

Init == PipelineStart /\ site = DefaultSite

----------------------------------------------------------------------------
(* Phase 1: run_complete_scrape's category loop and scrape_category_complete *)

phase1_vars == << work_queue, task, completed_skins, skins_arg, interrupted,
                  fetched, extract_started, run, site, xvars, lvars >>

\* get_page_content: the time slept after the request, before it returns
SleptAfterRequest(result) == IF result = "failed" THEN 0 ELSE delay

\* mutant of AlreadyProcessed: the test is left out
AlreadyProcessed_never(skins, skin_url) == FALSE

\* the already-processed test of scrape_category_complete
AlreadyProcessed(skins, skin_url) == HasUrl(skins, skin_url)

\* mutant of WhileGuard: the page cap is left out
WhileGuard_no_cap == current_url # ""

\* the loop condition of scrape_category_complete
WhileGuard == current_url # "" /\ page_num <= max_pages

\* the call of scrape_category_complete up to the first loop test
StartCategory ==
    /\ pc = "phase1"
    /\ idx <= Len(Categories)
    /\ IF Categories[idx].url = ""
       THEN /\ pc' = "category_done"
            /\ UNCHANGED << current_url, page_num >>
       ELSE /\ pc' = "listing"
            /\ current_url' = Categories[idx].url
            /\ page_num' = 1
    /\ category_skins' = << >>
    /\ skin_i' = 1
    /\ page_requests' = {}
    /\ UNCHANGED << progress_file, all_skins, all_scraped_skins, idx,
                    since_request >>
    /\ UNCHANGED phase1_vars

\* mutant of AfterListing: a failed listing request ends the run
AfterListing_abort(result) == IF result = "ok" THEN "skins" ELSE "done"

\* 'if not soup: break': where the traversal goes after the listing request
AfterListing(result) == IF result = "ok" THEN "skins" ELSE "category_done"

\* the loop test and get_page_content(current_url) on the listing page
FetchListing ==
    /\ pc = "listing"
    /\ IF ~WhileGuard
       THEN /\ pc' = "category_done"
            /\ UNCHANGED << page_requests, since_request >>
       ELSE \E result \in {"ok", "failed"} :
               /\ pc' = AfterListing(result)
               /\ page_requests' = page_requests \cup
                                     {[url |-> current_url, result |-> result]}
               /\ since_request' = SleptAfterRequest(result)
    /\ skin_i' = 1
    /\ UNCHANGED << progress_file, all_skins, all_scraped_skins, idx, current_url,
                    page_num, category_skins >>
    /\ UNCHANGED phase1_vars

\* one iteration of 'for skin_url in skin_urls'
ProcessSkinUrl ==
    /\ pc = "skins"
    /\ skin_i <= Len(ListingPage(current_url).skins)
    /\ LET skin_url == ListingPage(current_url).skins[skin_i] IN
         IF AlreadyProcessed(all_skins, skin_url)
         THEN UNCHANGED << category_skins, page_requests, since_request >>
         ELSE \E result \in {"ok", "failed", "no_metadata"} :
                 /\ category_skins' =
                       IF result = "ok"
                       THEN Append(category_skins,
                                   SkinMetadata(skin_url, Categories[idx].name, page_num))
                       ELSE category_skins
                 /\ page_requests' = page_requests \cup
                                       {[url |-> skin_url, result |-> result]}
                 /\ since_request' = SleptAfterRequest(result)
    /\ skin_i' = skin_i + 1
    /\ UNCHANGED << progress_file, all_skins, all_scraped_skins, pc, idx,
                    current_url, page_num >>
    /\ UNCHANGED phase1_vars

\* find_next_page_url and the end of the loop body
NextPage ==
    /\ pc = "skins"
    /\ skin_i > Len(ListingPage(current_url).skins)
    /\ LET next_url == ListingPage(current_url).next IN
         IF next_url # "" /\ next_url # current_url
         THEN /\ current_url' = next_url
              /\ page_num' = page_num + 1
              /\ pc' = "listing"
         ELSE /\ pc' = "category_done"
              /\ UNCHANGED << current_url, page_num >>
    /\ UNCHANGED << progress_file, all_skins, all_scraped_skins, idx, skin_i,
                    category_skins, page_requests, since_request >>
    /\ UNCHANGED phase1_vars

\* back in run_complete_scrape: extend, update, save_progress
FinishCategory ==
    /\ pc = "category_done"
    /\ all_scraped_skins' = all_scraped_skins \o category_skins
    /\ all_skins' = set_update(all_skins, category_skins)
    /\ progress_file' = SavedSkins(all_skins')
    /\ idx' = idx + 1
    /\ pc' = "phase1"
    /\ current_url' = ""
    /\ page_num' = 1
    /\ skin_i' = 1
    /\ category_skins' = << >>
    /\ UNCHANGED << page_requests, since_request >>
    /\ UNCHANGED phase1_vars

\* 'Update master collection': self.all_skins.update(all_scraped_skins)
UpdateMaster ==
    /\ pc = "phase1"
    /\ idx > Len(Categories)
    /\ all_skins' = set_update(all_skins, all_scraped_skins)
    /\ pc' = "phase2"
    /\ page_requests' = {}
    /\ UNCHANGED << progress_file, all_scraped_skins, idx, current_url, page_num,
                    skin_i, category_skins, since_request >>
    /\ UNCHANGED phase1_vars

\* Discovery on its own, over each of the sites
CrawlInit == PipelineStart /\ site \in Sites

CrawlNext ==
    \/ StartCategory
    \/ FetchListing
    \/ ProcessSkinUrl
    \/ NextPage
    \/ FinishCategory
    \/ UpdateMaster

CrawlSpec == CrawlInit /\ [][CrawlNext]_vars

\* the main thread keeps running
CrawlFairSpec == CrawlSpec /\ WF_vars(CrawlNext)

----------------------------------------------------------------------------
(* Phase 2: download_all_skins_parallel and the executor's worker threads *)

GetUrl(skin) == skin.url

HasDownloadUrl(skin) == skin.download_url # ""

\* mutant of NeedsDownload: the status test is left out
NeedsDownload_any_status(skin) == skin.download_url # ""

\* mutant of NeedsDownload: failed items are taken again
NeedsDownload_retry_failed(skin) ==
    /\ skin.download_url # ""
    /\ skin.download_status \in {"pending", "download_failed", "extraction_failed"}

\* the filter of to_download
NeedsDownload(skin) ==
    skin.download_url # "" /\ skin.download_status = "pending"

\* to_download = [skin for skin in skins if ...]
to_download(skins) == SelectSeq(skins, NeedsDownload)

\* download_file's return value on success
DownloadedFile(skin) ==
    [local_path |-> << "downloads", skin.category, skin.title >>,
     file_hash |-> << "sha256", skin.download_url >>]

\* extract_archive's return value on success
ExtractedDir(skin) == << "extracted_skins", skin.category, skin.title >>

\* mutant of AfterDownload: the 'if success' test is left out
AfterDownload_always_extract(success) == "downloaded"

\* process_skin_download: where the call goes after download_file returned
AfterDownload(success) == IF success THEN "downloaded" ELSE "finished"

\* mutant of ExtractionFailedStatus: the item is put back for a retry
ExtractionFailedStatus_requeue == "pending"

\* the status written when extract_archive returned failure
ExtractionFailedStatus == "extraction_failed"

\* mutant of Running: a worker is taken to be free again once its download ended
Running_downloads_only == {u \in SkinUrls : task[u] = "downloading"}

\* the work items a worker thread is inside process_skin_download for
Running ==
    {u \in SkinUrls : task[u] \in {"downloading", "load_stat", "store_stat",
                                    "downloaded", "extracting"}}

\* mutant of WorkerFree: a thread is started for every submitted item
WorkerFree_unbounded == TRUE

\* ThreadPoolExecutor(max_workers=self.max_workers): an idle thread exists
WorkerFree == Cardinality(Running) < max_workers

AllTasksFinished == \A u \in SkinUrls : task[u] \in {"none", "finished"}

phase2_vars == << all_scraped_skins, idx, current_url, page_num, skin_i,
                  category_skins, run, site, page_requests, xvars, lvars >>

\* the test on skins_with_downloads, the to_download filter and the submit loop
SubmitDownloads ==
    /\ pc = "phase2"
    /\ IF SelectSeq(all_skins, HasDownloadUrl) = << >>
       THEN /\ pc' = "phase3"
            /\ UNCHANGED << skins_arg, work_queue, task >>
       ELSE /\ skins_arg' = all_skins
            /\ IF to_download(all_skins) = << >>
               THEN /\ pc' = "phase3"
                    /\ UNCHANGED << work_queue, task >>
               ELSE /\ work_queue' = [i \in 1..Len(to_download(all_skins)) |->
                                       GetUrl(to_download(all_skins)[i])]
                    /\ task' = [u \in SkinUrls |->
                                  IF \E i \in 1..Len(work_queue') : work_queue'[i] = u
                                  THEN "queued" ELSE task[u]]
                    /\ pc' = "as_completed"
    /\ UNCHANGED << progress_file, all_skins, completed_skins, interrupted,
                    fetched, extract_started, since_request >>
    /\ UNCHANGED phase2_vars

\* a worker thread takes the next work item and enters process_skin_download
StartDownload(u) ==
    /\ pc \in {"as_completed", "shutdown"}
    /\ work_queue # << >>
    /\ Head(work_queue) = u
    /\ WorkerFree
    /\ work_queue' = Tail(work_queue)
    /\ IF SkinOf(all_skins, u).download_url = ""
       THEN /\ all_skins' = SetFields(all_skins, u,
                                      [download_status |-> "no_download_url"])
            /\ task' = [task EXCEPT ![u] = "finished"]
            /\ UNCHANGED << fetched, since_request >>
       ELSE /\ task' = [task EXCEPT ![u] = "downloading"]
            /\ fetched' = fetched \cup {u}
            /\ since_request' = 0
            /\ UNCHANGED all_skins
    /\ UNCHANGED << progress_file, pc, completed_skins, skins_arg, interrupted,
                    extract_started >>
    /\ UNCHANGED phase2_vars

\* process_skin_download: the fields set from download_file's return value r
RecordDownload(skins, u, r) ==
    IF r.success
    THEN SetFields(skins, u,
           [local_path |-> r.local_path, file_hash |-> r.file_hash,
            download_status |-> "downloaded"])
    ELSE SetFields(skins, u, [download_status |-> "download_failed"])

\* download_file returns and process_skin_download records the outcome
FinishDownload(u) ==
    /\ task[u] = "downloading"
    /\ \E success \in BOOLEAN :
         /\ all_skins' =
              RecordDownload(all_skins, u,
                 [success |-> success,
                  local_path |-> DownloadedFile(SkinOf(all_skins, u)).local_path,
                  file_hash |-> DownloadedFile(SkinOf(all_skins, u)).file_hash])
         /\ task' = [task EXCEPT ![u] = AfterDownload(success)]
    /\ UNCHANGED << progress_file, pc, work_queue, completed_skins, skins_arg,
                    interrupted, fetched, extract_started, since_request >>
    /\ UNCHANGED phase2_vars

\* mutant of OnException: the handler leaves the record as it is
OnException_unrecorded(skins, u) == skins

\* the 'except Exception' branch of process_skin_download
OnException(skins, u) == SetFields(skins, u, [download_status |-> "error"])

\* Path(local_path).stat() and the call of extract_archive
StartExtract(u) ==
    /\ task[u] = "downloaded"
    /\ \E stat_ok \in BOOLEAN :
         IF stat_ok
         THEN /\ task' = [task EXCEPT ![u] = "extracting"]
              /\ extract_started' = extract_started \cup {u}
              /\ UNCHANGED all_skins
         ELSE /\ all_skins' = OnException(all_skins, u)
              /\ task' = [task EXCEPT ![u] = "finished"]
              /\ UNCHANGED extract_started
    /\ UNCHANGED << progress_file, pc, work_queue, completed_skins, skins_arg,
                    interrupted, fetched, since_request >>
    /\ UNCHANGED phase2_vars

\* extract_archive returns and process_skin_download records the outcome
FinishExtract(u) ==
    /\ task[u] = "extracting"
    /\ \E extract_success \in BOOLEAN :
         all_skins' =
           IF extract_success
           THEN SetFields(all_skins, u,
                  [extracted_path |-> ExtractedDir(SkinOf(all_skins, u)),
                   download_status |-> "extracted"])
           ELSE SetFields(all_skins, u, [download_status |-> ExtractionFailedStatus])
    /\ task' = [task EXCEPT ![u] = "finished"]
    /\ UNCHANGED << progress_file, pc, work_queue, completed_skins, skins_arg,
                    interrupted, fetched, extract_started, since_request >>
    /\ UNCHANGED phase2_vars

\* one iteration of 'for future in as_completed(future_to_skin)'
CollectCompleted(u) ==
    /\ pc = "as_completed"
    /\ task[u] = "finished"
    /\ u \notin completed_skins
    /\ completed_skins' = completed_skins \cup {u}
    /\ progress_file' = IF Cardinality(completed_skins') % save_every = 0
                        THEN SavedSkins(all_skins) ELSE progress_file
    /\ UNCHANGED << all_skins, pc, work_queue, task, skins_arg, interrupted,
                    fetched, extract_started, since_request >>
    /\ UNCHANGED phase2_vars

\* skin.url in processed_urls
WasCompleted(skin) == skin.url \in completed_skins

\* mutant of AllProcessed: the else branch of the merge loop is left out
AllProcessed_completed_only(skins) == SelectSeq(skins, WasCompleted)

\* all_processed as built by the merge loop (the objects are shared, so the
\* processed version of a skin is the skin itself)
AllProcessed(skins) == skins

\* the executor is left, the lists are merged, self.all_skins = set(processed_skins)
MergeResults ==
    /\ pc = "as_completed"
    /\ AllTasksFinished
    /\ \A u \in SkinUrls : task[u] = "finished" => u \in completed_skins
    /\ all_skins' = set_update(<< >>, AllProcessed(all_skins))
    /\ task' = [u \in SkinUrls |-> "none"]
    /\ completed_skins' = {}
    /\ pc' = "phase3"
    /\ UNCHANGED << progress_file, work_queue, skins_arg, interrupted, fetched,
                    extract_started, since_request >>
    /\ UNCHANGED phase2_vars

\* Phase 3: save_complete_results and save_progress
SaveResults ==
    /\ pc = "phase3"
    /\ progress_file' = SavedSkins(all_skins)
    /\ pc' = "done"
    /\ UNCHANGED << all_skins, work_queue, task, completed_skins, skins_arg,
                    interrupted, fetched, extract_started, since_request >>
    /\ UNCHANGED phase2_vars

----------------------------------------------------------------------------
(* KeyboardInterrupt *)

\* KeyboardInterrupt raised in the main thread during Phase 1: it is not an
\* Exception, so it leaves scrape_category_complete and the category loop and
\* reaches the handler, which calls save_progress
InterruptDiscovery ==
    /\ pc \in {"phase1", "listing", "skins", "category_done"}
    /\ interrupted' = TRUE
    /\ progress_file' = SavedSkins(all_skins)
    /\ pc' = "done"
    /\ current_url' = ""
    /\ page_num' = 1
    /\ skin_i' = 1
    /\ category_skins' = << >>
    /\ page_requests' = {}
    /\ UNCHANGED << all_skins, all_scraped_skins, idx, work_queue, task,
                    completed_skins, skins_arg, fetched, extract_started, run,
                    site, since_request, xvars, lvars >>

\* KeyboardInterrupt raised in the main thread inside the 'with' block: the
\* executor's __exit__ runs shutdown(wait=True)
InterruptDownload ==
    /\ pc = "as_completed"
    /\ interrupted' = TRUE
    /\ pc' = "shutdown"
    /\ UNCHANGED << progress_file, all_skins, work_queue, task, completed_skins,
                    skins_arg, fetched, extract_started, since_request >>
    /\ UNCHANGED phase2_vars

\* shutdown(wait=True) has joined the workers; the handler calls save_progress
ShutdownComplete ==
    /\ pc = "shutdown"
    /\ work_queue = << >>
    /\ AllTasksFinished
    /\ progress_file' = SavedSkins(all_skins)
    /\ task' = [u \in SkinUrls |-> "none"]
    /\ completed_skins' = {}
    /\ pc' = "done"
    /\ UNCHANGED << all_skins, work_queue, skins_arg, interrupted, fetched,
                    extract_started, since_request >>
    /\ UNCHANGED phase2_vars

\* the program is started again on the same output directory
Restart ==
    /\ pc = "done"
    /\ run < MaxRuns
    /\ run' = run + 1
    /\ all_skins' = LoadedSkins(progress_file)
    /\ all_scraped_skins' = << >>
    /\ pc' = "phase1"
    /\ idx' = 1
    /\ current_url' = ""
    /\ page_num' = 1
    /\ skin_i' = 1
    /\ category_skins' = << >>
    /\ work_queue' = << >>
    /\ task' = [u \in SkinUrls |-> "none"]
    /\ completed_skins' = {}
    /\ skins_arg' = << >>
    /\ interrupted' = FALSE
    /\ fetched' = {}
    /\ extract_started' = {}
    /\ page_requests' = {}
    /\ since_request' = delay
    /\ UNCHANGED << progress_file, site, xvars, lvars >>

Next ==
    \/ StartCategory
    \/ FetchListing
    \/ ProcessSkinUrl
    \/ NextPage
    \/ FinishCategory
    \/ UpdateMaster
    \/ SubmitDownloads
    \/ \E u \in SkinUrls : StartDownload(u)
    \/ \E u \in SkinUrls : FinishDownload(u)
    \/ \E u \in SkinUrls : StartExtract(u)
    \/ \E u \in SkinUrls : FinishExtract(u)
    \/ \E u \in SkinUrls : CollectCompleted(u)
    \/ MergeResults
    \/ SaveResults
    \/ InterruptDiscovery
    \/ InterruptDownload
    \/ ShutdownComplete
    \/ Restart

Spec == Init /\ [][Next]_vars

----------------------------------------------------------------------------
(* The download pass on its own, from the end of Discovery to the end of the run *)

\* what Discovery of DefaultSite appends to all_scraped_skins when every
\* request is answered: s1 unless the progress file has it, s2 from both
\* pages of Clocks, s3 from page 2
ScrapedSkins(file) ==
    (IF HasUrl(file, "s1") THEN << >> ELSE << SkinMetadata("s1", "Clocks", 1) >>)
    \o << SkinMetadata("s2", "Clocks", 1), SkinMetadata("s2", "Clocks", 2),
          SkinMetadata("s3", "Clocks", 2) >>

\* run_complete_scrape at 'Phase 2', after such a Discovery
PassInit ==
    /\ \E file \in PriorProgressFiles :
          /\ all_scraped_skins = ScrapedSkins(file)
          /\ all_skins = set_update(LoadedSkins(file), all_scraped_skins)
    /\ progress_file = SavedSkins(all_skins)
    /\ pc = "phase2"
    /\ idx = Len(Categories) + 1
    /\ current_url = ""
    /\ page_num = 1
    /\ skin_i = 1
    /\ category_skins = << >>
    /\ work_queue = << >>
    /\ task = [u \in SkinUrls |-> "none"]
    /\ completed_skins = {}
    /\ skins_arg = << >>
    /\ interrupted = FALSE
    /\ fetched = {}
    /\ extract_started = {}
    /\ run = 1
    /\ site = DefaultSite
    /\ page_requests = {}
    /\ since_request = delay
    /\ NoExtractCall
    /\ limiter = NoLimiter
    /\ dl = NoDownload
    /\ UtilitiesIdle

PassNext ==
    \/ SubmitDownloads
    \/ \E u \in SkinUrls : StartDownload(u)
    \/ \E u \in SkinUrls : FinishDownload(u)
    \/ \E u \in SkinUrls : StartExtract(u)
    \/ \E u \in SkinUrls : FinishExtract(u)
    \/ \E u \in SkinUrls : CollectCompleted(u)
    \/ MergeResults
    \/ SaveResults
    \/ InterruptDownload
    \/ ShutdownComplete

PassSpec == PassInit /\ [][PassNext]_vars

\* the main thread and the worker threads keep running
PassFairSpec == PassSpec /\ WF_vars(PassNext)

----------------------------------------------------------------------------
(* The pipeline when the process can be killed *)

\* the process stops abruptly (SIGKILL, power loss): no handler runs, nothing
\* is saved, the workers die with it; all_skins is what memory held
Crash ==
    /\ pc # "done"
    /\ pc' = "done"
    /\ current_url' = ""
    /\ page_num' = 1
    /\ skin_i' = 1
    /\ category_skins' = << >>
    /\ work_queue' = << >>
    /\ task' = [u \in SkinUrls |-> "none"]
    /\ completed_skins' = {}
    /\ page_requests' = {}
    /\ UNCHANGED << progress_file, all_skins, all_scraped_skins, idx, skins_arg,
                    interrupted, fetched, extract_started, run, site,
                    since_request, xvars, lvars >>

CrashNext == Next \/ Crash

CrashSpec == Init /\ [][CrashNext]_vars

----------------------------------------------------------------------------
(* One process_skin_download call, with download_file step by step *)

\* Retry(total=3, ...) of the download session
Retry_total == 3

MaxChunks == 2

status_forcelist == {429, 500, 502, 503, 504}

\* the answers of the server to the successive requests of one call: some
\* 429 answers, then 200 or 404, or 429 to every request the call can send
Responses ==
    { [i \in 1..(k + 1) |-> IF i <= k THEN 429 ELSE final] :
        k \in 0..Retry_total, final \in {200, 404} }
    \cup { [i \in 1..(Retry_total + 1) |-> 429] }

\* the chunks iter_content yields (a chunk may be empty)
Chunks == { << "x" >>, << "y" >>, << >> }

\* mutant of ShouldRetry: the session has no retry strategy
ShouldRetry_never(status, retries_done) == FALSE

\* the HTTPAdapter repeats the request on a status of the force list while
\* retries are left
ShouldRetry(status, retries_done) ==
    status \in status_forcelist /\ retries_done < Retry_total

\* mutant of HashUpdate: the hasher is created anew for every chunk
HashUpdate_per_chunk(hashed, chunk) == chunk

\* hasher.update(chunk)
HashUpdate(hashed, chunk) == hashed \o chunk

\* hashlib.sha256 of a byte string, hexdigest
sha256(bytes) == << "sha256", bytes >>

\* the variables download_file leaves alone
not_dl_vars == << progress_file, all_skins, all_scraped_skins, pc, idx,
                  current_url, page_num, skin_i, category_skins, work_queue,
                  task, completed_skins, skins_arg, interrupted, fetched,
                  extract_started, run, site, page_requests, since_request,
                  xvars, limiter, uvars >>

\* self.session.get(url, stream=True) and raise_for_status
SessionGet ==
    /\ dl.pc = "get"
    /\ LET status == dl.responses[dl.attempts + 1] IN
         dl' = [dl EXCEPT
                  !.attempts = @ + 1,
                  !.pc = IF status = 200 THEN "stream"
                         ELSE IF ShouldRetry(status, dl.attempts) THEN "get"
                         ELSE "returned"]
    /\ UNCHANGED not_dl_vars

\* one turn of 'for chunk in response.iter_content(...)', or the stream breaks
IterContent ==
    /\ dl.pc = "stream"
    /\ dl.chunk_i <= Len(dl.body) \/ dl.breaks_at = dl.chunk_i
    /\ IF dl.breaks_at = dl.chunk_i
       THEN dl' = [dl EXCEPT !.pc = "returned"]
       ELSE LET chunk == dl.body[dl.chunk_i] IN
              dl' = [dl EXCEPT
                       !.chunk_i = @ + 1,
                       !.file = IF chunk # << >> THEN @ \o chunk ELSE @,
                       !.hashed = IF chunk # << >> THEN HashUpdate(@, chunk) ELSE @]
    /\ UNCHANGED not_dl_vars

\* return True, str(local_path), file_hash
DownloadReturn ==
    /\ dl.pc = "stream"
    /\ dl.chunk_i > Len(dl.body)
    /\ dl.breaks_at # dl.chunk_i
    /\ dl' = [dl EXCEPT
                !.pc = "returned",
                !.result = [success |-> TRUE,
                            local_path |-> DownloadedFile(SkinOf(all_skins, dl.url)).local_path,
                            file_hash |-> sha256(dl.hashed)]]
    /\ UNCHANGED not_dl_vars

\* back in process_skin_download: the outcome is recorded on the skin
RecordDownloaded ==
    /\ dl.pc = "returned"
    /\ task[dl.url] = "downloading"
    /\ all_skins' = RecordDownload(all_skins, dl.url, dl.result)
    /\ task' = [task EXCEPT ![dl.url] = AfterDownload(dl.result.success)]
    /\ dl' = [dl EXCEPT !.pc = "recorded"]
    /\ UNCHANGED << progress_file, pc, work_queue, completed_skins, skins_arg,
                    interrupted, fetched, extract_started, since_request,
                    limiter >>
    /\ UNCHANGED << all_scraped_skins, idx, current_url, page_num, skin_i,
                    category_skins, run, site, page_requests, xvars, uvars >>

\* a worker has entered process_skin_download for s4, the only pending skin
DownloadInit ==
    /\ progress_file \in {f \in PriorProgressFiles : HasUrl(f, "s4")}
    /\ all_skins = LoadedSkins(progress_file)
    /\ all_scraped_skins = << >>
    /\ pc = "as_completed"
    /\ idx = Len(Categories) + 1
    /\ current_url = ""
    /\ page_num = 1
    /\ skin_i = 1
    /\ category_skins = << >>
    /\ work_queue = << >>
    /\ task = [u \in SkinUrls |-> IF u = "s4" THEN "downloading" ELSE "none"]
    /\ completed_skins = {}
    /\ skins_arg = all_skins
    /\ interrupted = FALSE
    /\ fetched = {"s4"}
    /\ extract_started = {}
    /\ run = 1
    /\ site = DefaultSite
    /\ page_requests = {}
    /\ since_request = 0
    /\ NoExtractCall
    /\ limiter = NoLimiter
    /\ UtilitiesIdle
    /\ \E r \in Responses, b \in SeqsUpTo(Chunks, MaxChunks) :
          \E k \in 0..(Len(b) + 1) :
             dl = [NoDownload EXCEPT !.pc = "get", !.url = "s4", !.responses = r,
                                     !.body = b, !.breaks_at = k]

DownloadNext ==
    \/ SessionGet
    \/ IterContent
    \/ DownloadReturn
    \/ RecordDownloaded
    \/ \E u \in SkinUrls : StartExtract(u)
    \/ \E u \in SkinUrls : FinishExtract(u)

DownloadSpec == DownloadInit /\ [][DownloadNext]_vars

----------------------------------------------------------------------------
(* The end of a batch of eleven skins, with the three assignments that      *)
(* process_skin_download makes after a successful download taken one by one  *)
(* while the main thread collects futures and saves the progress.            *)

\* the skins of the batch, in the order of self.all_skins
BatchUrls == << "s1", "s2", "s4", "s5", "s6", "s7", "s8", "s9", "s10", "s11", "s12" >>

\* the futures as_completed has yielded so far
Collected == {BatchUrls[i] : i \in 1..(save_every - 1)}

\* skin.local_path = local_path
SetLocalPath(u) ==
    /\ task[u] = "downloading"
    /\ all_skins' = SetFields(all_skins, u,
                        [local_path |-> DownloadedFile(SkinOf(all_skins, u)).local_path])
    /\ task' = [task EXCEPT ![u] = "path_set"]
    /\ UNCHANGED << progress_file, pc, work_queue, completed_skins, skins_arg,
                    interrupted, fetched, extract_started, since_request >>
    /\ UNCHANGED phase2_vars

\* skin.file_hash = file_hash
SetFileHash(u) ==
    /\ task[u] = "path_set"
    /\ all_skins' = SetFields(all_skins, u,
                        [file_hash |-> DownloadedFile(SkinOf(all_skins, u)).file_hash])
    /\ task' = [task EXCEPT ![u] = "hash_set"]
    /\ UNCHANGED << progress_file, pc, work_queue, completed_skins, skins_arg,
                    interrupted, fetched, extract_started, since_request >>
    /\ UNCHANGED phase2_vars

\* skin.download_status = "downloaded"
SetDownloadStatus(u) ==
    /\ task[u] = "hash_set"
    /\ all_skins' = SetFields(all_skins, u, [download_status |-> "downloaded"])
    /\ task' = [task EXCEPT ![u] = AfterDownload(TRUE)]
    /\ UNCHANGED << progress_file, pc, work_queue, completed_skins, skins_arg,
                    interrupted, fetched, extract_started, since_request >>
    /\ UNCHANGED phase2_vars

\* download_file returned failure: skin.download_status = "download_failed"
DownloadFailed(u) ==
    /\ task[u] = "downloading"
    /\ all_skins' = SetFields(all_skins, u, [download_status |-> "download_failed"])
    /\ task' = [task EXCEPT ![u] = AfterDownload(FALSE)]
    /\ UNCHANGED << progress_file, pc, work_queue, completed_skins, skins_arg,
                    interrupted, fetched, extract_started, since_request >>
    /\ UNCHANGED phase2_vars

\* nine skins of the batch are done and collected, the last two are with the
\* two workers, both inside download_file
SnapshotInit ==
    /\ all_skins =
          [i \in 1..Len(BatchUrls) |->
              IF BatchUrls[i] \in Collected
              THEN PriorSkin(BatchUrls[i], "Clocks", 1, "extracted")
              ELSE PriorSkin(BatchUrls[i], "Clocks", 1, "pending")]
    /\ skins_arg =
          [i \in 1..Len(BatchUrls) |-> PriorSkin(BatchUrls[i], "Clocks", 1, "pending")]
    /\ progress_file = SavedSkins(skins_arg)
    /\ all_scraped_skins = << >>
    /\ pc = "as_completed"
    /\ idx = Len(Categories) + 1
    /\ current_url = ""
    /\ page_num = 1
    /\ skin_i = 1
    /\ category_skins = << >>
    /\ work_queue = << >>
    /\ task = [u \in SkinUrls |->
                 IF u \in Collected THEN "finished"
                 ELSE IF HasUrl(skins_arg, u) THEN "downloading" ELSE "none"]
    /\ completed_skins = Collected
    /\ interrupted = FALSE
    /\ fetched = {BatchUrls[i] : i \in 1..Len(BatchUrls)}
    /\ extract_started = Collected
    /\ run = 1
    /\ site = DefaultSite
    /\ page_requests = {}
    /\ since_request = 0
    /\ NoExtractCall
    /\ limiter = NoLimiter
    /\ dl = NoDownload
    /\ UtilitiesIdle

SnapshotNext ==
    \/ \E u \in SkinUrls : SetLocalPath(u)
    \/ \E u \in SkinUrls : SetFileHash(u)
    \/ \E u \in SkinUrls : SetDownloadStatus(u)
    \/ \E u \in SkinUrls : DownloadFailed(u)
    \/ \E u \in SkinUrls : StartExtract(u)
    \/ \E u \in SkinUrls : FinishExtract(u)
    \/ \E u \in SkinUrls : CollectCompleted(u)
    \/ MergeResults
    \/ SaveResults

SnapshotSpec == SnapshotInit /\ [][SnapshotNext]_vars

----------------------------------------------------------------------------
(* Claims about the pipeline, checked under Spec *)

Unique(skins) ==
    \A i, j \in 1..Len(skins) : skins[i].url = skins[j].url => i = j

DiscoveryFinished ==
    idx > Len(Categories) /\ pc \in {"phase2", "as_completed", "shutdown", "phase3", "done"}

\* C1: in a download pass a fetch is issued only for skins that were pending
\* with a download url when the pass began; skins that were downloaded or
\* extracted are never fetched and their records stay as they were.
C1_FetchOnlyPending ==
    /\ \A u \in fetched :
          /\ HasUrl(skins_arg, u)
          /\ SkinOf(skins_arg, u).download_status = "pending"
          /\ SkinOf(skins_arg, u).download_url # ""
    /\ \A i \in 1..Len(skins_arg) :
          skins_arg[i].download_status \in {"downloaded", "extracted"} =>
             /\ skins_arg[i].url \notin fetched
             /\ HasUrl(all_skins, skins_arg[i].url)
             /\ SkinOf(all_skins, skins_arg[i].url) = skins_arg[i]

\* a finished pass over downloaded, extracted and pending skins that fetched some
C1_Witness ==
    /\ pc = "phase3"
    /\ fetched # {}
    /\ \E i \in 1..Len(skins_arg) :
          skins_arg[i].download_status \in {"downloaded", "extracted"}
    /\ \E i \in 1..Len(skins_arg) : skins_arg[i].download_status = "pending"

\* C2: all_skins and the saved progress hold at most one skin per url, in
\* every state of every run.
C2_OnePerUrl == Unique(all_skins) /\ Unique(progress_file)

\* a second run, finished, in which one url was scraped from two listing pages
C2_Witness ==
    /\ run = 2
    /\ pc = "done"
    /\ Len(all_skins) >= 3
    /\ \E i, j \in 1..Len(all_scraped_skins) :
          i # j /\ all_scraped_skins[i].url = all_scraped_skins[j].url

\* C3: the second update of all_skins with the skins of this run (which the
\* per-category update has added already) leaves exactly one record per url
\* and leaves every record as the first update left it.
C3_SecondUpsertNoChange ==
    [][(pc = "phase1" /\ pc' = "phase2") =>
          \A k \in 1..Len(all_scraped_skins) :
             LET u == all_scraped_skins[k].url IN
               /\ Cardinality({i \in 1..Len(all_skins') : all_skins'[i].url = u}) = 1
               /\ HasUrl(all_skins, u)
               /\ SkinOf(all_skins', u) = SkinOf(all_skins, u)]_vars

\* the second update has run over a non-empty list of scraped skins
C3_Witness == pc = "phase2" /\ Len(all_scraped_skins) >= 2

StatusChange(u) ==
    /\ HasUrl(all_skins, u)
    /\ HasUrl(all_skins', u)
    /\ StatusOf(all_skins, u) # StatusOf(all_skins', u)

\* the edges of the status state machine as the claim lists them
ClaimedEdges ==
    { << "pending", "validating" >>, << "validating", "downloaded" >>,
      << "downloaded", "extracting" >>, << "extracting", "extracted" >>,
      << "pending", "invalid_url" >>, << "validating", "download_failed" >>,
      << "downloading", "download_failed" >>, << "downloaded", "extraction_failed" >> }

\* the status changes process_skin_download makes
PipelineEdges ==
    { << "pending", "downloaded" >>, << "downloaded", "extracted" >>,
      << "pending", "download_failed" >>, << "downloaded", "extraction_failed" >>,
      << "downloaded", "error" >> }

TerminalStatuses == {"extracted", "invalid_url", "download_failed", "extraction_failed"}

\* C5: a skin whose status is extracted, invalid_url, download_failed or
\* extraction_failed keeps that status in every later step.
C5_TerminalStays ==
    [][\A u \in SkinUrls :
          (HasUrl(all_skins, u) /\ StatusOf(all_skins, u) \in TerminalStatuses) =>
             /\ HasUrl(all_skins', u)
             /\ StatusOf(all_skins', u) = StatusOf(all_skins, u)]_vars

\* a skin failed to download while another one was still being processed
C5_Witness ==
    /\ \E u \in fetched : StatusOf(all_skins, u) = "download_failed"
    /\ \E v \in SkinUrls : task[v] \in {"queued", "downloading", "extracting"}

C7_NoNewWorkAfterInterrupt ==
    [][interrupted =>
          /\ fetched' \subseteq fetched
          /\ extract_started' \subseteq extract_started
          /\ ~(pc = "phase1" /\ pc' = "listing")]_vars

\* a step that sends the request for a listing page
ListingRequest ==
    pc = "listing" /\ WhileGuard /\ pc' \in {"skins", "category_done"}

\* a step that sends the request for a skin's detail page
DetailRequest ==
    /\ pc = "skins"
    /\ skin_i <= Len(ListingPage(current_url).skins)
    /\ skin_i' = skin_i + 1
    /\ ~AlreadyProcessed(all_skins, ListingPage(current_url).skins[skin_i])

\* a step that sends the request for a package
DownloadRequest == fetched' # fetched

\* C13 as claimed: whenever a listing, detail or download request is sent,
\* at least the delay has been waited since the request before it
C13_RequestsPaced ==
    [][(ListingRequest \/ DetailRequest \/ DownloadRequest) =>
          since_request >= delay]_vars

InDiscovery == pc \in {"phase1", "listing", "skins", "category_done"}

\* a step of the loop over skin_urls that handles candidate url u
Candidate(u) ==
    /\ pc = "skins"
    /\ skin_i <= Len(ListingPage(current_url).skins)
    /\ ListingPage(current_url).skins[skin_i] = u
    /\ skin_i' = skin_i + 1

\* C14: during Discovery a candidate url that all_skins already holds (from
\* the progress file of an earlier run or from an earlier category) is
\* skipped: no request is sent for it, no skin is built for it, and its
\* record in all_skins, status included, stays as it is.
C14_KnownUrlSkipped ==
    [][\A u \in SkinUrls :
          (InDiscovery /\ HasUrl(all_skins, u)) =>
             /\ HasUrl(all_skins', u)
             /\ SkinOf(all_skins', u) = SkinOf(all_skins, u)
             /\ Candidate(u) =>
                   /\ page_requests' = page_requests
                   /\ since_request' = since_request
                   /\ category_skins' = category_skins]_vars

\* a candidate that an earlier run had extracted has just been passed over
C14_Witness ==
    /\ pc = "skins"
    /\ skin_i > 1
    /\ LET u == ListingPage(current_url).skins[skin_i - 1] IN
          /\ HasUrl(all_skins, u)
          /\ StatusOf(all_skins, u) = "extracted"
          /\ \A r \in page_requests : r.url # u

\* C19 as claimed: once the download phase of a run is over every skin
\* without a download url is marked no_download_url, and no such skin is
\* ever queued or fetched
C19_MarkedNoDownloadUrl ==
    /\ (pc \in {"phase3", "done"} /\ ~interrupted) =>
          \A i \in 1..Len(all_skins) :
             all_skins[i].download_url = "" =>
                all_skins[i].download_status = "no_download_url"
    /\ \A u \in SkinUrls :
          (u \in fetched \/ task[u] # "none") =>
             SkinOf(all_skins, u).download_url # ""

----------------------------------------------------------------------------
(* Claims about Discovery, checked under CrawlSpec and CrawlFairSpec *)

\* the page just processed has no next link, or one that is the page itself
NoFurtherPage ==
    /\ pc = "skins"
    /\ skin_i > Len(ListingPage(current_url).skins)
    /\ ListingPage(current_url).next \in {"", current_url}

\* C15: in the traversal of a category a listing page is requested only
\* while the page counter is at most 50, and the counter goes up by one
\* between two requests, so at most 50 listing pages are requested; the
\* skins collected so far are kept; the traversal ends at a page that has no
\* next link or links to itself; and every traversal ends.
C15_PageCapAndTermination ==
    /\ [][ListingRequest => (page_num <= max_pages /\ page_num' = page_num)]_vars
    /\ [][(pc' = "listing" /\ pc # "phase1") =>
             (pc = "skins" /\ page_num' = page_num + 1)]_vars
    /\ [][(pc \in {"listing", "skins"}) =>
             IsPrefix(category_skins, category_skins')]_vars
    /\ [][NoFurtherPage => pc' = "category_done"]_vars
    /\ (pc = "listing") ~> (pc = "category_done")

\* a cycle of next links was followed up to the cap and the traversal ended
\* with the skins of the first page
C15_Witness ==
    /\ site = CycleSite
    /\ pc = "category_done"
    /\ page_num = max_pages + 1
    /\ Len(category_skins) = 2

\* C16: when the request for a listing page fails the traversal of the
\* category ends with the skins collected from its earlier pages, those
\* skins are put into all_skins and the progress file, and every category
\* of the configuration is still started; when the request for a detail
\* page fails only that skin is left out and the loop goes on with the next
\* url of the page.
C16_FailuresAreLocal ==
    /\ [][(ListingRequest /\ page_requests' \ page_requests =
                                 {[url |-> current_url, result |-> "failed"]}) =>
             (pc' = "category_done" /\ category_skins' = category_skins)]_vars
    /\ [][(pc = "category_done" /\ pc' = "phase1") =>
             /\ idx' = idx + 1
             /\ \A i \in 1..Len(category_skins) :
                   /\ HasUrl(all_skins', category_skins[i].url)
                   /\ HasUrl(progress_file', category_skins[i].url)]_vars
    /\ [][\A u \in SkinUrls : HasUrl(all_skins, u) => HasUrl(all_skins', u)]_vars
    /\ [][DetailRequest =>
             /\ pc' = "skins"
             /\ current_url' = current_url
             /\ IsPrefix(category_skins, category_skins')]_vars
    /\ \A k \in 1..Len(Categories) :
          <>(idx = k /\ pc \in {"listing", "category_done"})

\* the first category is finished: the detail page of s1 and the second
\* listing page failed, and s2, found on the first page, is in all_skins and
\* in the progress file
C16_Witness ==
    /\ pc = "phase1"
    /\ idx = 2
    /\ [url |-> "s1", result |-> "failed"] \in page_requests
    /\ [url |-> "A2", result |-> "failed"] \in page_requests
    /\ Len(all_scraped_skins) = 1
    /\ all_scraped_skins[1].url = "s2"
    /\ HasUrl(all_skins, "s2")
    /\ HasUrl(progress_file, "s2")

RECURSIVE Chain(_, _)
\* the listing pages of a category, following the next links from page n on
Chain(u, n) ==
    IF u = "" \/ n > max_pages THEN << >>
    ELSE << u >> \o (IF ListingPage(u).next \in {"", u} THEN << >>
                     ELSE Chain(ListingPage(u).next, n + 1))

\* the links of a category: the skin url and the number of the page it is on
Links(k) ==
    LET pages == Chain(Categories[k].url, 1) IN
      UNION { { [url |-> ListingPage(pages[j]).skins[i], page |-> j] :
                  i \in 1..Len(ListingPage(pages[j]).skins) } :
              j \in 1..Len(pages) }

\* the links of category k are pairwise distinct urls not yet in all_skins,
\* and every request of the traversal succeeded and gave a skin
DistinctNewAllOk(k) ==
    /\ \A l1, l2 \in Links(k) : l1.url = l2.url => l1 = l2
    /\ \A l \in Links(k) : ~HasUrl(all_skins, l.url)
    /\ \A r \in page_requests : r.result = "ok"

\* C17: when the traversal of a category whose pages link to pairwise
\* distinct new urls ends with every request answered, it has built exactly
\* one skin per link, pending and with the number of the page that links it
\* as page_number, and these skins are the category's records in all_skins.
C17_OneSkinPerLink ==
    [][(pc = "category_done" /\ pc' = "phase1" /\ DistinctNewAllOk(idx)) =>
          /\ Len(category_skins) = Cardinality(Links(idx))
          /\ \A l \in Links(idx) :
                /\ Cardinality({i \in 1..Len(category_skins) :
                                   category_skins[i].url = l.url}) = 1
                /\ Cardinality({i \in 1..Len(all_skins') :
                                   all_skins'[i].url = l.url}) = 1
                /\ SkinOf(all_skins', l.url) = SkinOf(category_skins, l.url)
                /\ SkinOf(all_skins', l.url).download_status = "pending"
                /\ SkinOf(all_skins', l.url).page_number = l.page]_vars

\* three skins from page 1 and two from page 2 have become five skins
C17_Witness ==
    /\ site = TwoPageSite
    /\ pc = "phase1"
    /\ idx = 2
    /\ Len(all_scraped_skins) = 5
    /\ \A i \in 1..5 : HasUrl(all_skins, all_scraped_skins[i].url)
    /\ {all_scraped_skins[i].page_number : i \in 1..5} = {1, 2}

----------------------------------------------------------------------------
(* Claims about extract_archive, checked under ExtractSpec *)

\* the aggregate cap of 2 GB, in units of 250 MB
MAX_EXTRACT_SIZE == 8

RECURSIVE TotalSize(_)
TotalSize(members) ==
    IF members = << >> THEN 0 ELSE Head(members).size + TotalSize(Tail(members))

\* a member whose resolved path is not below the extraction directory
Escapes(m) == ~IsPrefix(skin_dir, Resolved(m.name))

HasEscapingMember(a) == \E i \in 1..Len(a.members) : Escapes(a.members[i])

\* C8 as claimed: an archive with a member that resolves outside the
\* extraction directory makes extract_archive return failure, and no file is
\* created outside the destination
C8_TraversalRejected ==
    (x_pc = "returned" /\ HasEscapingMember(archive)) =>
        /\ ~x_result.success
        /\ \A f \in disk : IsPrefix(skin_dir, f.path)

\* C9 as claimed: nothing is written before every member has passed the
\* path check and the aggregate size check
C9_ValidateBeforeWrite ==
    disk # disk_before =>
        /\ ~HasEscapingMember(archive)
        /\ TotalSize(archive.members) <= MAX_EXTRACT_SIZE

\* C10 as claimed: no member of an archive declaring more than the aggregate
\* cap is ever written to the destination, whose files stay as they were,
\* and extract_archive fails on it
C10_BombRejected ==
    (archive.exists /\ TotalSize(archive.members) > MAX_EXTRACT_SIZE) =>
        /\ disk = disk_before
        /\ x_pc = "returned" => ~x_result.success

\* every member of the archive is in place below the destination
AllMembersWritten ==
    \A i \in 1..Len(archive.members) :
       [path |-> skin_dir \o ZipMemberPath(archive.members[i].name),
        content |-> "new"] \in disk

\* C11 as claimed: in every state of an extraction, also one that fails or
\* is cut short, the destination holds either exactly what it held before
\* the call or the complete content of the archive, never a part of it
C11_AtomicDestination ==
    archive.exists => (disk = disk_before \/ AllMembersWritten)

----------------------------------------------------------------------------
(* Claims about the rate limiter, checked under LimiterSpec *)

\* C12: after any sequence of on_success, on_rate_limited and on_error calls
\* the delay is at least min_delay and at most max_delay.
C12_DelayWithinBounds ==
    min_delay <= limiter.delay /\ limiter.delay <= max_delay

\* throttling has driven the delay to max_delay, and successes follow
C12_Witness ==
    /\ limiter.delay = max_delay
    /\ limiter.failure_count = 0
    /\ limiter.success_count > 0

----------------------------------------------------------------------------
(* Claims about download_file and process_skin_download, checked under
   DownloadSpec *)

\* a record that is downloaded, extracted or extraction_failed has a local
\* path and a file hash, and an extracted record has an extracted path
RecordsComplete ==
    \A i \in 1..Len(all_skins) :
       /\ all_skins[i].download_status \in
              {"downloaded", "extracted", "extraction_failed"} =>
             (all_skins[i].local_path # << >> /\ all_skins[i].file_hash # << >>)
       /\ all_skins[i].download_status = "extracted" =>
             all_skins[i].extracted_path # << >>

\* C18: once download_file has returned success and the outcome is recorded,
\* the skin's file_hash is the sha256 of exactly the bytes written to the
\* file at its local_path, and its status is downloaded until extraction is
\* started; in every state the records are complete in the sense above.
C18_HashOfBytesOnDisk ==
    /\ (dl.pc = "recorded" /\ dl.result.success) =>
          /\ SkinOf(all_skins, dl.url).file_hash = sha256(dl.file)
          /\ SkinOf(all_skins, dl.url).local_path = dl.result.local_path
          /\ task[dl.url] = "downloaded" =>
                StatusOf(all_skins, dl.url) = "downloaded"
    /\ RecordsComplete

\* a body of two chunks was written and hashed and the skin is downloaded
C18_Witness ==
    /\ dl.pc = "recorded"
    /\ dl.result.success
    /\ dl.file = << "x", "y" >>
    /\ StatusOf(all_skins, dl.url) = "downloaded"
    /\ SkinOf(all_skins, dl.url).file_hash = << "sha256", << "x", "y" >> >>

\* the number of requests of the call that were answered with 429
Throttled ==
    Cardinality({i \in 1..dl.attempts : dl.responses[i] = 429})

----------------------------------------------------------------------------
(* Claims about the download batch, checked under Spec *)

\* the statuses process_skin_download leaves on a skin it was given
ProcessedStatuses == {"extracted", "extraction_failed", "download_failed", "error"}

\* the skins of the batch: those the filter selected when the pass began
InBatch(u) == HasUrl(skins_arg, u) /\ NeedsDownload(SkinOf(skins_arg, u))

\* C21: when the download pass is over, every skin of the batch has been
\* processed to the end and carries its outcome (extracted, extraction_failed,
\* download_failed or error), whatever happened to the other skins of the
\* batch, and when the run is over the saved progress holds that outcome.
C21_BatchItemsAllRecorded ==
    pc \in {"phase3", "done"} =>
       \A u \in SkinUrls :
          InBatch(u) =>
             /\ HasUrl(all_skins, u)
             /\ StatusOf(all_skins, u) \in ProcessedStatuses
             /\ pc = "done" =>
                   /\ HasUrl(progress_file, u)
                   /\ SkinOf(progress_file, u) = asdict(SkinOf(all_skins, u))

\* a finished run whose batch had a skin that raised, one that failed to
\* download and one that was extracted
C21_Witness ==
    /\ pc = "done"
    /\ \E u, v, w \in SkinUrls :
          /\ InBatch(u) /\ InBatch(v) /\ InBatch(w)
          /\ StatusOf(all_skins, u) = "error"
          /\ StatusOf(all_skins, v) = "download_failed"
          /\ StatusOf(all_skins, w) = "extracted"

\* the fields of a record that Discovery sets and no later phase may change
Metadata(skin) ==
    [url |-> skin.url, title |-> skin.title, category |-> skin.category,
     download_url |-> skin.download_url, page_number |-> skin.page_number]

MetadataOf(skins) == {Metadata(skins[i]) : i \in 1..Len(skins)}

\* C22: from the start of the download pass to the end of the run, all_skins
\* holds exactly the urls it held when the pass began, one record each, with
\* the same title, category, download url and page number; only the status,
\* local path, extracted path and file hash differ, and the saved progress of
\* the finished run holds the same urls and metadata.
C22_OnlyStatusAndPathsChange ==
    skins_arg # << >> =>
       /\ Len(all_skins) = Len(skins_arg)
       /\ MetadataOf(all_skins) = MetadataOf(skins_arg)
       /\ pc = "done" =>
             /\ Len(progress_file) = Len(skins_arg)
             /\ MetadataOf(progress_file) = MetadataOf(skins_arg)

\* the pass is over: a skin of the batch was extracted, another skin was not
\* in the batch, and the records are not what they were when the pass began
C22_Witness ==
    /\ pc = "phase3"
    /\ all_skins # skins_arg
    /\ \E u, v \in SkinUrls :
          /\ InBatch(u) /\ StatusOf(all_skins, u) = "extracted"
          /\ HasUrl(skins_arg, v) /\ ~InBatch(v)

----------------------------------------------------------------------------
(* Claims about the saved progress *)

\* C23: no record of the saved progress is half-updated: a record whose
\* status is still pending has no local path and no file hash.
C23_NoHalfUpdatedRecord ==
    \A i \in 1..Len(progress_file) :
       progress_file[i].download_status = "pending" =>
          /\ progress_file[i].local_path = << >>
          /\ progress_file[i].file_hash = << >>

\* C24: when the program is started again, every record the stopped process
\* held is loaded from the progress file with the same fields, whether the
\* process ended, was interrupted or was killed.
C24_LedgerSurvivesRestart ==
    [][(pc = "done" /\ pc' = "phase1") =>
          \A i \in 1..Len(all_skins) :
             /\ HasUrl(all_skins', all_skins[i].url)
             /\ SkinOf(all_skins', all_skins[i].url) = all_skins[i]]_vars

----------------------------------------------------------------------------
(* Claims about the calls on the database, checked under LedgerSpec *)

\* C25: update_download_status on a url of the table returns success, sets
\* the status and exactly the fields passed, and leaves the other columns of
\* that row and every other row as they were; on a url that is not in the
\* table it fails and the table is unchanged.
C25_UpdateSetsOnlyWhatWasPassed ==
    [][db_result'.op = "update_download_status" =>
          LET url == db_result'.url
              fields == db_result'.fields
          IN IF HasRow(db, url)
             THEN /\ db_result'.ok
                  /\ Cardinality(db') = Cardinality(db)
                  /\ HasRow(db', url)
                  /\ RowOf(db', url).download_status = db_result'.status
                  /\ \A f \in FieldNames :
                        RowOf(db', url)[f] =
                           IF f \in DOMAIN fields THEN fields[f] ELSE RowOf(db, url)[f]
                  /\ \A f \in {"url", "category", "download_url"} :
                        RowOf(db', url)[f] = RowOf(db, url)[f]
                  /\ \A r \in db : r.url # url => r \in db'
             ELSE /\ ~db_result'.ok
                  /\ db' = db]_vars

\* the call set the status and the hash of one of two rows, whose local
\* path and extracted path are the old ones
C25_Witness ==
    /\ db_result.op = "update_download_status"
    /\ db_result.ok
    /\ DOMAIN db_result.fields = {"file_hash"}
    /\ Cardinality(db) = 2
    /\ \E r \in db :
          /\ r.url = db_result.url
          /\ r.download_status = "download_failed"
          /\ r.local_path = "old_local_path"
          /\ r.file_hash = "new_file_hash"
          /\ r.extracted_path = "old_extracted_path"

\* the rows a download pass may take
EligibleRows(rows) ==
    {r \in rows : r.download_status = "pending" /\ r.download_url # ""}

C27_ResetOnlyMatching ==
    [][db_result'.op = "reset" =>
          LET category == db_result'.category
              status == db_result'.status
          IN /\ {r.url : r \in db'} = {r.url : r \in db}
             /\ Cardinality(db') = Cardinality(db)
             /\ (category = "" /\ status = "") => db' = db
             /\ (category = "") # (status = "") =>
                   \A r \in db :
                      RowOf(db', r.url) =
                         IF r.category = category \/ r.download_status = status
                         THEN [url |-> r.url, category |-> r.category,
                               download_url |-> r.download_url,
                               download_status |-> "pending", local_path |-> "",
                               extracted_path |-> "", file_hash |-> ""]
                         ELSE r]_vars

\* a reset by status has put an extracted row back to pending, with its paths
\* and hash cleared, next to a downloaded row that keeps its path
C27_Witness ==
    /\ db_result.op = "reset"
    /\ db_result.status = "extracted"
    /\ db_result.category = ""
    /\ db_result.count = 1
    /\ \E r \in db : r.download_status = "pending" /\ r.local_path = ""
    /\ \E r \in db : r.download_status = "downloaded" /\ r.local_path # ""

----------------------------------------------------------------------------
(* Claims about sanitize_filename, checked under SanitizeSpec *)

\* C28: every name sanitize_filename returns has none of the characters
\* < > : " / \ | ? *, has at most 100 characters, neither starts nor ends
\* with a dot or a space and is not empty; sanitizing a name that
\* sanitize_filename returned gives that name back.
C28_SanitizedName ==
    /\ \A k \in 1..Len(filename.out) :
          LET name == filename.out[k] IN
            /\ \A i \in 1..Len(name) : name[i] \notin invalid_chars
            /\ Len(name) <= filename_limit
            /\ name # << >>
            /\ name[1] \notin {".", " "}
            /\ name[Len(name)] \notin {".", " "}
    /\ Len(filename.out) = 2 => filename.out[2] = filename.out[1]

\* a name of more than 100 characters with an invalid first character and a
\* dot as its 100th was sanitized twice
C28_Witness ==
    /\ Len(filename.out) = 2
    /\ Len(filename.input) > filename_limit
    /\ filename.input[1] \in invalid_chars
    /\ filename.input[filename_limit] = "."
    /\ Len(filename.out[1]) = filename_limit - 1

----------------------------------------------------------------------------
(* Claims about the end of the download pass, checked under PassFairSpec *)

\* a worker enters download_file for u
FetchStarts(u) == task[u] # "downloading" /\ task'[u] = "downloading"

\* C29: the download pass ends; when it has ended no skin of all_skins is
\* pending with a download url, so a further pull would be empty; and no
\* skin is fetched twice in one run.
C29_DownloadPassTerminates ==
    /\ []((skins_arg # << >> /\ pc \in {"phase3", "done"}) =>
             to_download(all_skins) = << >>)
    /\ [][\A u \in SkinUrls : FetchStarts(u) => u \notin fetched]_vars
    /\ (pc = "as_completed") ~> (pc \in {"phase3", "done"})

\* a pass over a batch of three skins has ended
C29_Witness ==
    /\ pc = "phase3"
    /\ Cardinality({u \in SkinUrls : InBatch(u)}) = 3
    /\ fetched = {u \in SkinUrls : InBatch(u)}

----------------------------------------------------------------------------
(* Claims about the records an earlier run left as downloaded *)

\* C30: when a run that was not interrupted is over, every skin that was
\* downloaded when its download pass began has been passed to
\* extract_archive and is extracted or extraction_failed.
C30_DownloadedGetExtracted ==
    (pc = "done" /\ ~interrupted) =>
       \A i \in 1..Len(skins_arg) :
          skins_arg[i].download_status = "downloaded" =>
             /\ skins_arg[i].url \in extract_started
             /\ StatusOf(all_skins, skins_arg[i].url) \in
                   {"extracted", "extraction_failed"}

----------------------------------------------------------------------------
(* Claims about the worker threads of the download pass *)

\* the work items whose extract_archive call is in progress
Extracting == {u \in SkinUrls : task[u] = "extracting"}

QueuedCount(u) == Cardinality({i \in 1..Len(work_queue) : work_queue[i] = u})

\* C35: at most max_workers skins are inside process_skin_download at any
\* time; a submitted skin is in the queue once, is taken by a worker only
\* from the queue, and is not in the queue while or after a worker has it.
C35_WorkersBounded ==
    /\ [](Cardinality({u \in SkinUrls :
                task[u] \in {"downloading", "downloaded", "extracting"}})
            <= max_workers)
    /\ [](\A u \in SkinUrls :
            /\ QueuedCount(u) <= 1
            /\ (QueuedCount(u) = 1) <=> (task[u] = "queued"))
    /\ [][\A u \in SkinUrls :
            (task[u] # task'[u] /\ task'[u] \in {"downloading", "downloaded",
                                                 "extracting"}) =>
               \/ task[u] = "queued" /\ task'[u] = "downloading"
               \/ task[u] = "downloading" /\ task'[u] = "downloaded"
               \/ task[u] = "downloaded" /\ task'[u] = "extracting"]_vars

\* every worker is busy, one downloading and one extracting, and a third
\* skin waits in the queue
C35_Witness ==
    /\ Cardinality(Running) = max_workers
    /\ \E u, v \in Running : task[u] = "downloading" /\ task[v] = "extracting"
    /\ work_queue # << >>

----------------------------------------------------------------------------
(* Claims about extraction into a directory that exists, under ExtractSpec *)

\* the files the archive's members make below the destination
ArchiveFiles ==
    { [path |-> skin_dir \o ZipMemberPath(archive.members[i].name),
       content |-> "new"] : i \in 1..Len(archive.members) }

\* C32 as claimed: after a successful extraction into a destination that
\* existed before the call, the destination holds exactly the files of the
\* archive and nothing of what it held before
C32_DestinationReplaced ==
    (x_pc = "returned" /\ x_result.success /\ skin_dir \in dirs_before) =>
        {f \in disk : IsPrefix(skin_dir, f.path)} = ArchiveFiles

----------------------------------------------------------------------------
(* Claims about the rate limiter's callbacks, checked under LimiterSpec *)

\* C33: on_success leaves the delay as it is and counts the success while
\* fewer than success_threshold successes have been counted; the call that
\* counts the success_threshold-th multiplies the delay by 0.95, not below
\* min_delay, and sets the success counter to zero; the counter never
\* reaches the threshold.
C33_SpeedUpEveryNthSuccess ==
    /\ [](limiter.success_count < success_threshold)
    /\ [][on_success =>
            IF limiter.success_count + 1 < success_threshold
            THEN /\ limiter'.delay = limiter.delay
                 /\ limiter'.success_count = limiter.success_count + 1
            ELSE /\ limiter'.delay =
                       (IF (limiter.delay * 95) \div 100 < min_delay
                        THEN min_delay ELSE (limiter.delay * 95) \div 100)
                 /\ limiter'.delay <= limiter.delay
                 /\ limiter'.success_count = 0]_vars

\* successes have brought the delay to the floor, where 0.95 times the
\* previous delay would have been below it
C33_Witness ==
    /\ limiter.delay = min_delay
    /\ limiter.success_count = 0
    /\ limiter.failure_count = 0

\* C34: on_rate_limited sets the delay to twice its value, capped at
\* max_delay: the delay never decreases and grows whenever it was below
\* max_delay; the success counter is set to zero and the failure counter is
\* incremented.
C34_BackoffOnRateLimit ==
    [][on_rate_limited =>
         /\ limiter'.delay =
               (IF limiter.delay * 2 > max_delay THEN max_delay
                ELSE limiter.delay * 2)
         /\ limiter'.delay >= limiter.delay
         /\ (limiter.delay < max_delay => limiter'.delay > limiter.delay)
         /\ limiter'.success_count = 0
         /\ limiter'.failure_count = limiter.failure_count + 1]_vars

\* a throttled answer after some successes: the delay is capped at max_delay,
\* below twice its previous value, and the success counter is zero again
C34_Witness ==
    /\ limiter.delay = max_delay
    /\ limiter.success_count = 0
    /\ limiter.failure_count > 0

----------------------------------------------------------------------------
(* Claims about repeated candidates and about the interrupt during Discovery *)

\* a step in which scrape_individual_skin_page is called for u
DetailFetch(u) == Candidate(u) /\ ~AlreadyProcessed(all_skins, u)

\* C39 as claimed: the detail page of a url is requested at most once in a
\* run; in particular no request is sent for a url that was already
\* requested from an earlier listing page of the category being traversed
C39_DetailFetchedOnce ==
    [][\A u \in SkinUrls :
          DetailFetch(u) => \A r \in page_requests : r.url # u]_vars

\* the step in which the KeyboardInterrupt handler has saved the progress
InterruptSaved == pc # "done" /\ pc' = "done" /\ interrupted'

\* C40 as claimed: the progress saved by the interrupt handler holds every
\* skin built before the interrupt, those of the category being traversed
\* included, each with the status it has reached
C40_InterruptSavesAll ==
    [][InterruptSaved =>
          /\ \A i \in 1..Len(category_skins) :
                HasUrl(progress_file', category_skins[i].url)
          /\ \A i \in 1..Len(all_scraped_skins) :
                HasUrl(progress_file', all_scraped_skins[i].url)
          /\ \A i \in 1..Len(all_skins) :
                /\ HasUrl(progress_file', all_skins[i].url)
                /\ StatusOf(progress_file', all_skins[i].url) =
                      all_skins[i].download_status]_vars

----------------------------------------------------------------------------
(* self.stats under the worker threads: process_skin_download with each     *)
(* 'self.stats[key] += 1' as a read of the counter followed by a write      *)

\* the skins of the batch, as Discovery built them
StatsUrls == << "s1", "s2", "s4" >>

\* the counter process_skin_download increments after setting the status
StatKey(status) ==
    CASE status = "downloaded"        -> "skins_downloaded"
      [] status = "extracted"         -> "skins_extracted"
      [] status = "download_failed"   -> "download_failures"
      [] status = "extraction_failed" -> "extraction_failures"
      [] OTHER                        -> "errors"

\* where the call goes after the increment that follows the status
AfterIncrement(status) == IF status = "downloaded" THEN "downloaded" ELSE "finished"

stats_vars == << progress_file, all_scraped_skins, pc, idx, current_url, page_num,
                 skin_i, category_skins, work_queue, completed_skins, skins_arg,
                 interrupted, fetched, extract_started, run, site, page_requests,
                 since_request, xvars, limiter, dl, db, db_result, filename,
                 paths >>

\* download_file returns and the status is set; the increment is next
DownloadReturns(u) ==
    /\ task[u] = "downloading"
    /\ \E success \in BOOLEAN :
         all_skins' =
            RecordDownload(all_skins, u,
               [success |-> success,
                local_path |-> DownloadedFile(SkinOf(all_skins, u)).local_path,
                file_hash |-> DownloadedFile(SkinOf(all_skins, u)).file_hash])
    /\ task' = [task EXCEPT ![u] = "load_stat"]
    /\ UNCHANGED << stats, loaded >>
    /\ UNCHANGED stats_vars

\* 'self.stats[key] += 1': the thread reads the counter
LoadStat(u) ==
    /\ task[u] = "load_stat"
    /\ loaded' = [loaded EXCEPT ![u] = stats[StatKey(StatusOf(all_skins, u))]]
    /\ task' = [task EXCEPT ![u] = "store_stat"]
    /\ UNCHANGED << stats, all_skins >>
    /\ UNCHANGED stats_vars

\* 'self.stats[key] += 1': the thread writes the value it read plus one
StoreStat(u) ==
    /\ task[u] = "store_stat"
    /\ stats' = [stats EXCEPT ![StatKey(StatusOf(all_skins, u))] = loaded[u] + 1]
    /\ loaded' = [loaded EXCEPT ![u] = -1]
    /\ task' = [task EXCEPT ![u] = AfterIncrement(StatusOf(all_skins, u))]
    /\ UNCHANGED all_skins
    /\ UNCHANGED stats_vars

\* Path(local_path).stat() and the call of extract_archive
StatFile(u) ==
    /\ task[u] = "downloaded"
    /\ \E stat_ok \in BOOLEAN :
         IF stat_ok
         THEN /\ task' = [task EXCEPT ![u] = "extracting"]
              /\ UNCHANGED all_skins
         ELSE /\ all_skins' = OnException(all_skins, u)
              /\ task' = [task EXCEPT ![u] = "load_stat"]
    /\ UNCHANGED << stats, loaded >>
    /\ UNCHANGED stats_vars

\* extract_archive returns and the status is set; the increment is next
ExtractReturns(u) ==
    /\ task[u] = "extracting"
    /\ \E extract_success \in BOOLEAN :
         all_skins' =
           IF extract_success
           THEN SetFields(all_skins, u,
                  [extracted_path |-> ExtractedDir(SkinOf(all_skins, u)),
                   download_status |-> "extracted"])
           ELSE SetFields(all_skins, u, [download_status |-> ExtractionFailedStatus])
    /\ task' = [task EXCEPT ![u] = "load_stat"]
    /\ UNCHANGED << stats, loaded >>
    /\ UNCHANGED stats_vars

StatsInit ==
    /\ all_skins = [i \in 1..Len(StatsUrls) |-> SkinMetadata(StatsUrls[i], "Clocks", 1)]
    /\ all_scraped_skins = all_skins
    /\ progress_file = SavedSkins(all_skins)
    /\ pc = "phase2"
    /\ idx = Len(Categories) + 1
    /\ current_url = ""
    /\ page_num = 1
    /\ skin_i = 1
    /\ category_skins = << >>
    /\ work_queue = << >>
    /\ task = [u \in SkinUrls |-> "none"]
    /\ completed_skins = {}
    /\ skins_arg = << >>
    /\ interrupted = FALSE
    /\ fetched = {}
    /\ extract_started = {}
    /\ run = 1
    /\ site = DefaultSite
    /\ page_requests = {}
    /\ since_request = delay
    /\ NoExtractCall
    /\ limiter = NoLimiter
    /\ dl = NoDownload
    /\ UtilitiesIdle

StatsNext ==
    \/ SubmitDownloads
    \/ \E u \in SkinUrls : StartDownload(u)
    \/ \E u \in SkinUrls : DownloadReturns(u)
    \/ \E u \in SkinUrls : LoadStat(u)
    \/ \E u \in SkinUrls : StoreStat(u)
    \/ \E u \in SkinUrls : StatFile(u)
    \/ \E u \in SkinUrls : ExtractReturns(u)
    \/ \E u \in SkinUrls : CollectCompleted(u)
    \/ MergeResults

StatsSpec == StatsInit /\ [][StatsNext]_vars

\* the skins whose download succeeded in this pass
Downloaded == {i \in 1..Len(all_skins) : all_skins[i].file_hash # << >>}

WithStatus(status) ==
    {i \in 1..Len(all_skins) : all_skins[i].download_status = status}

\* C36 as claimed: when the download pass is over, each counter equals the
\* number of skins that took the outcome it counts
C36_CountersExact ==
    pc = "phase3" =>
        /\ stats["skins_downloaded"] = Cardinality(Downloaded)
        /\ stats["skins_extracted"] = Cardinality(WithStatus("extracted"))
        /\ stats["download_failures"] = Cardinality(WithStatus("download_failed"))
        /\ stats["extraction_failures"] =
               Cardinality(WithStatus("extraction_failed"))

----------------------------------------------------------------------------
(* The paths download_file and extract_archive build for two skins. A name  *)
(* is a sequence of characters (with '..' and the extensions as units), a   *)
(* path a sequence of names.                                                *)

download_dir == << << "downloads" >> >>

extract_dir == << << "extracted_skins" >> >>

\* skin titles: two that differ only in a character sanitize_filename
\* replaces, and a third
PathTitles == { << "a", "/", "b" >>, << "a", "_", "b" >>, << "c" >> }

\* category names: two that differ only in a trailing space
PathCategories == { << "K" >>, << "K", " " >> }

\* unquote(Path(urlparse(url).path).name), split at the separators: a plain
\* name, a name without a dot, and b%2F..%2F..%2Fc.zip
UrlNames ==
    { << << "skin", ".zip" >> >>,
      << << "download" >> >>,
      << << "b" >>, << ".." >>, << ".." >>, << "c", ".zip" >> >> }

\* the filename of the Content-Disposition header, split at the separators
\* (<< >> when the header is absent): a plain name, x/../../evil.zip and
\* ../evil.zip
Dispositions ==
    { << >>,
      << << "skin", ".zip" >> >>,
      << << "x" >>, << ".." >>, << ".." >>, << "evil", ".zip" >> >>,
      << << ".." >>, << "evil", ".zip" >> >> }

ContentTypes == {"rar", ""}

DotUnits == {".", "..", ".zip", ".rar", ".7z", ".rmskin"}

ArchiveExtensions == {".zip", ".rar", ".7z", ".rmskin"}

\* the skins with download url u
PathItems(u) ==
    [url : {u}, title : PathTitles, category : PathCategories,
     url_name : UrlNames, content_disposition : Dispositions,
     content_type : ContentTypes]

\* '.' in filename
HasDot(name) ==
    \E i \in 1..Len(name) : \E j \in 1..Len(name[i]) : name[i][j] \in DotUnits

\* filename.startswith('.')
StartsWithDot(name) == name[1][1] \in DotUnits

\* get_filename_from_url(url, content_disposition)
get_filename_from_url(item) ==
    IF item.content_disposition # << >> /\ ~StartsWithDot(item.content_disposition)
    THEN item.content_disposition
    ELSE IF HasDot(item.url_name)
         THEN item.url_name
         ELSE << << "skin_", item.url, ".zip" >> >>

\* 'Ensure proper extension'
EnsureExtension(name, content_type) ==
    LET last == name[Len(name)] IN
      IF last[Len(last)] \in ArchiveExtensions THEN name
      ELSE [name EXCEPT ![Len(name)] =
              Append(last, IF content_type = "rar" THEN ".rar" ELSE ".zip")]

\* category_dir = self.download_dir / self.sanitize_filename(category)
CategoryDir(item) == Append(download_dir, sanitize_filename(item.category))

\* category_dir / f"{safe_skin_name}_{filename}", name by name
JoinedPath(item) ==
    LET name == EnsureExtension(get_filename_from_url(item), item.content_type)
    IN CategoryDir(item)
       \o << sanitize_filename(item.title) \o << "_" >> \o Head(name) >>
       \o Tail(name)

RECURSIVE Collapse(_, _)
\* the location a path designates when '..' is resolved on the text of the path
Collapse(base, rest) ==
    IF rest = << >> THEN base
    ELSE IF Head(rest) = << ".." >>
         THEN Collapse(IF base = << >> THEN << >>
                       ELSE SubSeq(base, 1, Len(base) - 1), Tail(rest))
         ELSE Collapse(Append(base, Head(rest)), Tail(rest))

\* the directories that exist when open(local_path, 'wb') is called
ExistingDirs(item) == { << >>, download_dir, CategoryDir(item) }

\* open(local_path, 'wb'): the file that is created (<< >> when open raises).
\* A path with '..' is resolved on its text (lexical, as Windows does) or
\* through the directories on disk, where <category_dir>/<first name> is missing
OpenedFile(item, lexical) ==
    LET target == Collapse(<< >>, JoinedPath(item)) IN
      IF Len(JoinedPath(item)) = Len(download_dir) + 2 THEN JoinedPath(item)
      ELSE IF lexical /\ target # << >>
                /\ SubSeq(target, 1, Len(target) - 1) \in ExistingDirs(item)
           THEN target
           ELSE << >>

\* extract_dir / sanitize_filename(category) / sanitize_filename(skin_name)
SkinDir(item) ==
    extract_dir \o << sanitize_filename(item.category),
                      sanitize_filename(item.title) >>

path_unchanged == << progress_file, all_skins, all_scraped_skins, pc, idx,
                    current_url, page_num, skin_i, category_skins, work_queue,
                    task, completed_skins, skins_arg, interrupted, fetched,
                    extract_started, run, site, page_requests, since_request,
                    xvars, limiter, dl, db, db_result, filename, stats, loaded >>

\* download_file for the next skin, up to open(local_path, 'wb')
BuildLocalPath ==
    /\ Len(paths.local_path) < Len(paths.items)
    /\ \E lexical \in BOOLEAN :
         paths' = [paths EXCEPT !.local_path =
                      Append(@, OpenedFile(paths.items[Len(@) + 1], lexical))]
    /\ UNCHANGED path_unchanged

\* extract_archive for the next skin, up to skin_dir.mkdir (<< >> when the
\* download failed and extract_archive is not called)
BuildSkinDir ==
    /\ Len(paths.extract_dir) < Len(paths.local_path)
    /\ paths' = [paths EXCEPT !.extract_dir =
                    Append(@, IF paths.local_path[Len(@) + 1] = << >> THEN << >>
                              ELSE SkinDir(paths.items[Len(@) + 1]))]
    /\ UNCHANGED path_unchanged

PathInit ==
    /\ paths \in [items : {<< a, b >> : a \in PathItems("d1"), b \in PathItems("d2")},
                  local_path : {<< >>}, extract_dir : {<< >>}]
    /\ db = {}
    /\ db_result = NoResult
    /\ filename = NoFilename
    /\ stats = ZeroStats
    /\ loaded = NoneLoaded
    /\ limiter = NoLimiter
    /\ dl = NoDownload
    /\ NoExtractCall
    /\ PipelineIdle

PathNext == BuildLocalPath \/ BuildSkinDir

PathSpec == PathInit /\ [][PathNext]_vars

\* C37 as claimed: two skins with different urls are never written to the
\* same download file and never extracted into the same directory
C37_DistinctPaths ==
    (Len(paths.local_path) = 2 /\ Len(paths.extract_dir) = 2) =>
        /\ (paths.local_path[1] # << >> /\ paths.local_path[2] # << >>) =>
               paths.local_path[1] # paths.local_path[2]
        /\ (paths.extract_dir[1] # << >> /\ paths.extract_dir[2] # << >>) =>
               paths.extract_dir[1] # paths.extract_dir[2]

\* C38 as claimed: whatever name the header or the url supplies, the file a
\* download is written to is an entry of <downloads>/<sanitized category>/
C38_DownloadInsideCategoryDir ==
    \A k \in 1..Len(paths.local_path) :
       paths.local_path[k] # << >> =>
          IsPrefix(CategoryDir(paths.items[k]), paths.local_path[k])

====
